---- MODULE Spec2Model ----
(***************************************************************************)
(* A model of the VERSPM adapter of tmip-emat-ve (src/emat_verspm.py):     *)
(* the scenario-file blending engine, the regular-expression substitution  *)
(* classes, the template (marker) manipulations, the categorical drop-in  *)
(* of input files, and the adapter's setup, run, last_run_logs,            *)
(* post_process and archive, alone and on distributed workers.             *)
(*                                                                         *)
(* Representation.                                                         *)
(*  - A text is a sequence of one-character strings.                       *)
(*  - A table is what pandas.read_csv returns for a file: a record of the  *)
(*    column dtypes and the rows.  A float cell is an integer number of    *)
(*    units of 10^-7 or NaN (a missing value); endpoint files hold     *)
(*    float cells with at most six decimals, so that every weighted sum    *)
(*    with a weight given in tenths is an exact number of units.  The      *)
(*    binary rounding error of IEEE doubles is not modelled.               *)
(*  - A weight is a number of tenths (WOne tenths make 1.0).               *)
(***************************************************************************)
EXTENDS Integers, Sequences, FiniteSets, TLC

VARIABLES
    scenario_inputs,  \* the scenario_inputs tree: <<ve_scenario_dir, sub>> -> listing
    inputs,           \* the working <model_path>/inputs directory: name -> content
    pre,              \* the inputs directory as it was when the last call started
    call,             \* the last call made: its name and arguments
    raised,           \* the exception the last call raised, or NoError
    text,             \* the text a substitution is applied to
    result,           \* the text the last substitution returned, or the lines last_run_logs put out
    output,           \* the <model_path>/output directory: name -> content
    workdir,          \* the files run() writes into local_directory
    last_run_result,  \* the attribute of that name, or Unset
    completed,        \* the last operation of the lifecycle that returned normally
    platform,         \* platform.system()
    local_directory,  \* the attribute of that name
    worker,           \* get_worker().local_directory, or NoWorker
    master_tree,      \* the model tree left in the master directory, or Unset
    cwd,              \* the current working directory of the process
    archive_dir,      \* the output directory of an archived run: name -> content
    zips,             \* the archives made: path -> the output subtree packed
    trees,            \* the model trees of the master and of the workers: directory -> tree
    procs             \* the setup calls running on distributed workers

vars == <<scenario_inputs, inputs, pre, call, raised, text, result,
          output, workdir, last_run_result, completed, platform,
          local_directory, worker, master_tree, cwd, archive_dir, zips,
          trees, procs>>

\* the state of the model object and of its working directory outside inputs
adapter == <<output, workdir, last_run_result, completed, platform,
             local_directory, worker, master_tree, cwd, archive_dir, zips,
             trees, procs>>
\* not running on a distributed worker: get_worker() raises
NoWorker == "none"
\* an attribute that was never assigned
Unset == [kind |-> "unset"]
\* the parts that manipulate input files or texts leave the adapter alone
AdapterIdle ==
    /\ output = <<>>
    /\ workdir = <<>>
    /\ last_run_result = Unset
    /\ completed = "none"
    /\ platform = "Linux"
    /\ local_directory = "master"
    /\ worker = NoWorker
    /\ master_tree = Unset
    /\ cwd = "master"
    /\ archive_dir = <<>>
    /\ zips = <<>>
    /\ trees = <<>>
    /\ procs = <<>>

----------------------------------------------------------------------------
(* Values shared by all parts *)

Absent == [kind |-> "absent"]   \* no directory entry of that name
NoError == [type |-> "none"]
NoCall == [op |-> "none"]
\* a missing float cell (read_csv's NaN): a value no arithmetic ever produces
NaN == -2000000000

\* 1.0 as a weight (tenths)
WOne == 10

\* os.scandir yields the entries in arbitrary order
Orders(S) == { o \in [1..Cardinality(S) -> S] : \A i, j \in 1..Cardinality(S) : o[i] = o[j] => i = j }

\* round n/d to the nearest integer, ties upwards
RoundHalfUp(n, d) == (2 * n + d) \div (2 * d)
\* round n/d to the nearest integer, ties to the even one (np.round, d > 0)
RoundHalfEven(n, d) ==
    LET q == n \div d
        r == n % d
    IN  IF 2 * r < d THEN q
        ELSE IF 2 * r > d THEN q + 1
        ELSE IF q % 2 = 0 THEN q ELSE q + 1

----------------------------------------------------------------------------
(* The blending engine: VERSPModel._manipulate_by_mixture *)

MixNames == {"a.csv", "b.csv"}
Columns == {"Year", "Geo", "Share", "Count", "Mode"}
Rows == 1..2

\* The endpoint tables the scenario directories may hold.  All have the same
\* columns, dtypes and number of rows (the endpoint files are structurally
\* identical); Share is float, Year and Count are integer, Geo and Mode are text.
Dtypes == [Year |-> "int", Geo |-> "object", Share |-> "float", Count |-> "int", Mode |-> "object"]
Tables == <<
    [dtype |-> Dtypes,
     rows |-> << [Year |-> 2010, Geo |-> "RVMPO", Share |-> 12345670, Count |-> 1, Mode |-> "bus"],
                 [Year |-> 2038, Geo |-> "RVMPO", Share |-> 2500000,  Count |-> 4, Mode |-> "rail"] >>],
    [dtype |-> Dtypes,
     rows |-> << [Year |-> 2011, Geo |-> "Metro", Share |-> 20000000, Count |-> 4, Mode |-> "walk"],
                 [Year |-> 2039, Geo |-> "Metro", Share |-> NaN,      Count |-> 7, Mode |-> "bike"] >>],
    [dtype |-> Dtypes,
     rows |-> << [Year |-> 2010, Geo |-> "RVMPO", Share |-> 50,       Count |-> -3, Mode |-> "bus"],
                 [Year |-> 2038, Geo |-> "RVMPO", Share |-> 10000050, Count |-> 0,  Mode |-> "bus"] >>]
  >>
TableSet == { Tables[k] : k \in 1..Len(Tables) }

File(t) == [kind |-> "file", data |-> t]
SubDir == [kind |-> "dir"]
IsFile(e) == e.kind = "file"

\* params[weight_param]: 0, 0.3, 0.5, 1 and an out-of-range 1.2
Weights == {0, 3, 5, 10, 12}
\* no_mix_cols: the default, and a caller that also excludes a float column
DefaultNoMix == {"Year", "Geo"}
NoMixChoices == {DefaultNoMix, {"Year", "Geo", "Share"}}

\* weight_1 = 1.0 - weight_2
weight_1_same(weight_2) == weight_2
weight_1_of(weight_2) == WOne - weight_2

\* df1_float * weight_1 + df2_float * weight_2 for one float cell
MixFloatSwapped(e1, e2, weight_1, weight_2) ==
    IF e1 = NaN \/ e2 = NaN THEN NaN
    ELSE (e1 * weight_2 + e2 * weight_1) \div WOne
MixFloat(e1, e2, weight_1, weight_2) ==
    IF e1 = NaN \/ e2 = NaN THEN NaN
    ELSE (e1 * weight_1 + e2 * weight_2) \div WOne

\* np.round(df1_int * weight_1 + df2_int * weight_2).astype(int) for one cell
MixIntHalfUp(i1, i2, weight_1, weight_2) == RoundHalfUp(i1 * weight_1 + i2 * weight_2, WOne)
MixInt(i1, i2, weight_1, weight_2) == RoundHalfEven(i1 * weight_1 + i2 * weight_2, WOne)

\* float_format="%.5f": a float cell as it stands in the written file
Fmt5(x) == IF x = NaN THEN NaN ELSE RoundHalfEven(x, 100) * 100

float_mix_cols(df1, no_mix_cols) == { c \in Columns : df1.dtype[c] = "float" } \ no_mix_cols
int_mix_cols(df1, no_mix_cols) == { c \in Columns : df1.dtype[c] = "int" } \ no_mix_cols

\* the data frame df1 after both groups of columns have been assigned
MixedFrameAll(df1, df2, weight_2, no_mix_cols) ==
    LET weight_1 == weight_1_of(weight_2)
    IN  [dtype |-> df1.dtype,
         rows |-> [r \in Rows |-> [c \in Columns |->
            IF df1.dtype[c] = "float"
              THEN MixFloat(df1.rows[r][c], df2.rows[r][c], weight_1, weight_2)
            ELSE IF df1.dtype[c] = "int"
              THEN MixInt(df1.rows[r][c], df2.rows[r][c], weight_1, weight_2)
            ELSE df1.rows[r][c]]]]
MixedFrame(df1, df2, weight_2, no_mix_cols) ==
    LET weight_1 == weight_1_of(weight_2)
    IN  [dtype |-> df1.dtype,
         rows |-> [r \in Rows |-> [c \in Columns |->
            IF c \in float_mix_cols(df1, no_mix_cols)
              THEN MixFloat(df1.rows[r][c], df2.rows[r][c], weight_1, weight_2)
            ELSE IF c \in int_mix_cols(df1, no_mix_cols)
              THEN MixInt(df1.rows[r][c], df2.rows[r][c], weight_1, weight_2)
            ELSE df1.rows[r][c]]]]

\* df.to_csv(out_filename, index=False, float_format="%.5f"): the file as
\* read_csv reads it back; every float column goes through the float format
to_csv(df) ==
    [dtype |-> df.dtype,
     rows |-> [r \in Rows |-> [c \in Columns |->
        IF df.dtype[c] = "float" THEN Fmt5(df.rows[r][c]) ELSE df.rows[r][c]]]]

ScenPath(ve_scenario_dir, sub, name) == <<ve_scenario_dir, sub, name>>
FileNotFoundError(path) == [type |-> "FileNotFoundError", arg |-> path]

\* The whole of _manipulate_by_mixture for one scan order of directory "1":
\* the files of "1" in scan order, the exception of the first loop if a file
\* has no counterpart in "2", else the inputs directory after the second loop.
filenames(dir1, order) == SelectSeq(order, LAMBDA n : IsFile(dir1[n]))
MissingAt(fs, dir2) == { i \in 1..Len(fs) : dir2[fs[i]] = Absent }
FirstMissing(fs, dir2) == CHOOSE i \in MissingAt(fs, dir2) : \A j \in MissingAt(fs, dir2) : i <= j

\* a variant that keeps a file already in the inputs directory
BlendIntoCached(inp, fs, upto, dir1, dir2, weight_2, no_mix_cols) ==
    [n \in DOMAIN inp |->
        IF (\E i \in 1..upto : fs[i] = n) /\ inp[n] = Absent
          THEN File(to_csv(MixedFrame(dir1[n].data, dir2[n].data, weight_2, no_mix_cols)))
          ELSE inp[n]]
BlendInto(inp, fs, upto, dir1, dir2, weight_2, no_mix_cols) ==
    [n \in DOMAIN inp |->
        IF \E i \in 1..upto : fs[i] = n
          THEN File(to_csv(MixedFrame(dir1[n].data, dir2[n].data, weight_2, no_mix_cols)))
          ELSE inp[n]]

\* a variant that checks directory "2" inside the blending loop
manipulate_interleaved(inp, dir1, dir2, ve, weight_2, no_mix_cols, order) ==
    LET fs == filenames(dir1, order)
    IN  IF MissingAt(fs, dir2) # {}
          THEN [raised |-> FileNotFoundError(ScenPath(ve, "2", fs[FirstMissing(fs, dir2)])),
                inputs |-> BlendInto(inp, fs, FirstMissing(fs, dir2) - 1, dir1, dir2, weight_2, no_mix_cols)]
          ELSE [raised |-> NoError,
                inputs |-> BlendInto(inp, fs, Len(fs), dir1, dir2, weight_2, no_mix_cols)]
manipulate_by_mixture(inp, dir1, dir2, ve, weight_2, no_mix_cols, order) ==
    LET fs == filenames(dir1, order)
    IN  IF MissingAt(fs, dir2) # {}
          THEN [raised |-> FileNotFoundError(ScenPath(ve, "2", fs[FirstMissing(fs, dir2)])),
                inputs |-> inp]
          ELSE [raised |-> NoError,
                inputs |-> BlendInto(inp, fs, Len(fs), dir1, dir2, weight_2, no_mix_cols)]

MixDir == "F"
IdleText == <<>>

Mixture(weight_2, no_mix_cols) ==
    \E order \in Orders(MixNames) :
        LET out == manipulate_by_mixture(inputs, scenario_inputs[<<MixDir, "1">>],
                        scenario_inputs[<<MixDir, "2">>], MixDir, weight_2, no_mix_cols, order)
        IN  /\ inputs' = out.inputs
            /\ raised' = out.raised
            /\ pre' = inputs
            /\ call' = [op |-> "mixture", weight |-> weight_2, no_mix_cols |-> no_mix_cols]
            /\ UNCHANGED <<adapter, scenario_inputs, text, result>>

\* Directory "1" holds tables and possibly a subdirectory; directory "2" holds tables
InitMix ==
    /\ AdapterIdle
    /\ \E d1 \in { l \in [MixNames -> {File(t) : t \in TableSet} \cup {Absent, SubDir}] :
                        \E n \in MixNames : IsFile(l[n]) },
          d2 \in [MixNames -> {File(t) : t \in TableSet} \cup {Absent}] :
            scenario_inputs = (<<MixDir, "1">> :> d1) @@ (<<MixDir, "2">> :> d2)
    /\ inputs \in {[n \in MixNames |-> Absent],
                   [n \in MixNames |-> IF n = "a.csv" THEN File(Tables[1]) ELSE Absent]}
    /\ pre = inputs
    /\ call = NoCall
    /\ raised = NoError
    /\ text = IdleText
    /\ result = IdleText

NextMix == \E w \in Weights, nm \in NoMixChoices : Mixture(w, nm)

SpecMix == InitMix /\ [][NextMix]_vars

----------------------------------------------------------------------------
(* The substitution classes: ReplacementOfNumber and ReplacementOfString *)

\* A position in a text is an index 1..Len(s)+1; NoMatch says that a pattern
\* does not match at the position tried.
NoMatch == 0
IsSpace(c) == c \in {" ", "\t", "\n"}                                  \* \s
IsDigit(c) == c \in {"0", "1", "2", "3", "4", "5", "6", "7", "8", "9"} \* \d
Slice(s, i, j) == SubSeq(s, i, j - 1)           \* s[i:j] with 1-based positions

\* the greedy repetitions of the two patterns; none of them has to give
\* characters back, as what follows each can never match a character it took
RECURSIVE SkipSpace(_, _), SkipDigits(_, _), SkipValue(_, _), SkipLine(_, _)
SkipSpace(s, i) == IF i <= Len(s) /\ IsSpace(s[i]) THEN SkipSpace(s, i + 1) ELSE i     \* \s*
SkipDigits(s, i) == IF i <= Len(s) /\ IsDigit(s[i]) THEN SkipDigits(s, i + 1) ELSE i   \* \d*
SkipValue(s, i) ==                                                                     \* [^#\n]*
    IF i <= Len(s) /\ s[i] \notin {"#", "\n"} THEN SkipValue(s, i + 1) ELSE i
SkipLine(s, i) == IF i <= Len(s) /\ s[i] # "\n" THEN SkipLine(s, i + 1) ELSE i         \* .*
Opt(s, i, set) == IF i <= Len(s) /\ s[i] \in set THEN i + 1 ELSE i                     \* [..]?
StartsWith(s, i, lit) ==
    /\ i + Len(lit) - 1 <= Len(s)
    /\ \A k \in 1..Len(lit) : s[i + k - 1] = lit[k]

\* group 1 of both patterns, (varname\s*assign_operator\s*): the position after it
MatchAssign(s, i, varname, assign_operator) ==
    IF ~StartsWith(s, i, varname) THEN NoMatch
    ELSE LET j == SkipSpace(s, i + Len(varname))
         IN  IF StartsWith(s, j, assign_operator)
               THEN SkipSpace(s, j + Len(assign_operator))
               ELSE NoMatch

\* numbr, first alternative: [-+]?\d*\.?\d*[eE]?[-+]?\d*  (it matches everywhere,
\* possibly the empty text)
NumbrDecimal(s, i) ==
    LET a == Opt(s, i, {"-", "+"})
        b == SkipDigits(s, a)
        c == Opt(s, b, {"."})
        d == SkipDigits(s, c)
        e == Opt(s, d, {"e", "E"})
        f == Opt(s, e, {"-", "+"})
    IN  SkipDigits(s, f)
\* numbr, second alternative: \d+\/\d+
NumbrFraction(s, i) ==
    LET a == SkipDigits(s, i)
    IN  IF a = i \/ a > Len(s) \/ s[a] # "/" THEN NoMatch
        ELSE LET b == SkipDigits(s, a + 1)
             IN  IF b = a + 1 THEN NoMatch ELSE b
\* numbr: the alternatives are tried in order, and nothing follows the group
\* in the pattern that could make the regex engine come back for the second
numbr(s, i) ==
    IF NumbrDecimal(s, i) # NoMatch THEN NumbrDecimal(s, i) ELSE NumbrFraction(s, i)

\* str(value) of a number: an int, or a float given in tenths
Digits == <<"0", "1", "2", "3", "4", "5", "6", "7", "8", "9">>
RECURSIVE Dec(_)
Dec(n) == IF n < 10 THEN <<Digits[n + 1]>> ELSE Dec(n \div 10) \o <<Digits[(n % 10) + 1]>>
str(value) ==
    IF value.kind = "int"
      THEN (IF value.n < 0 THEN <<"-">> \o Dec(-value.n) ELSE Dec(value.n))
    ELSE IF value.kind = "float"
      THEN Dec(value.tenths \div 10) \o <<".">> \o Dec(value.tenths % 10)
    ELSE value.s

\* ReplacementOfNumber(varname, assign_operator).sub(value, s):
\* regex.subn(f"\g<1>{value}", s) from position i on, matches taken leftmost
\* and not overlapping
RECURSIVE ReplacementOfNumber_subn(_, _, _, _, _)
ReplacementOfNumber_subn(varname, assign_operator, value, s, i) ==
    IF i > Len(s) THEN <<>>
    ELSE LET g1 == MatchAssign(s, i, varname, assign_operator)
         IN  IF g1 = NoMatch
               THEN <<s[i]>> \o ReplacementOfNumber_subn(varname, assign_operator, value, s, i + 1)
               ELSE Slice(s, i, g1) \o str(value)
                      \o ReplacementOfNumber_subn(varname, assign_operator, value, s, numbr(s, g1))
ReplacementOfNumber_sub(varname, assign_operator, value, s) ==
    ReplacementOfNumber_subn(varname, assign_operator, value, s, 1)

\* ReplacementOfString(varname, assign_operator).sub(value, s):
\* regex.subn(f"\g<1>{value}  \g<3>", s) with the pattern
\* (varname\s*op\s*)([^#\n]*)(#.*)?
RECURSIVE ReplacementOfString_subn(_, _, _, _, _)
ReplacementOfString_subn(varname, assign_operator, value, s, i) ==
    IF i > Len(s) THEN <<>>
    ELSE LET g1 == MatchAssign(s, i, varname, assign_operator)
             g2 == SkipValue(s, g1)
             g3 == IF g2 <= Len(s) /\ s[g2] = "#" THEN SkipLine(s, g2) ELSE g2
         IN  IF g1 = NoMatch
               THEN <<s[i]>> \o ReplacementOfString_subn(varname, assign_operator, value, s, i + 1)
               ELSE Slice(s, i, g1) \o str(value) \o <<" ", " ">> \o Slice(s, g2, g3)
                      \o ReplacementOfString_subn(varname, assign_operator, value, s, g3)
ReplacementOfString_sub(varname, assign_operator, value, s) ==
    ReplacementOfString_subn(varname, assign_operator, value, s, 1)

\* The texts the substitutions are applied to: one assignment of x, written
\* with or without blanks around the operator and possibly as the tail of a
\* longer name, followed by up to MaxTail further characters; and two short
\* assignments on two lines.
MaxTail == 3
varname == <<"x">>
assign_operator == <<":">>
Seqs(alphabet, n) == UNION { [1..k -> alphabet] : k \in 0..n }
Blanks == {<<>>, <<" ">>}
Assignments == { lead \o varname \o b1 \o assign_operator \o b2 :
                    lead \in {<<>>, <<"a">>}, b1 \in Blanks, b2 \in Blanks }
TextsOver(alphabet) ==
    { a \o t : a \in Assignments, t \in Seqs(alphabet, MaxTail) }
      \cup { <<"x", ":", " ">> \o t \o <<"\n">> \o <<"x", ":">> \o u :
                t \in Seqs(alphabet, 1), u \in Seqs(alphabet, 1) }

NumAlphabet == {"1", "2", ".", "e", "-", "/", " ", "a"}
NumValues == { [kind |-> "int", n |-> 7], [kind |-> "float", tenths |-> 25] }

SubNumber(value) ==
    /\ result' = ReplacementOfNumber_sub(varname, assign_operator, value, text)
    /\ call' = [op |-> "sub_number", value |-> value]
    /\ UNCHANGED <<adapter, scenario_inputs, inputs, pre, raised, text>>

IdleDir == <<>>
InitNum ==
    /\ AdapterIdle
    /\ text \in TextsOver(NumAlphabet)
    /\ result = IdleText
    /\ call = NoCall
    /\ raised = NoError
    /\ scenario_inputs = IdleDir /\ inputs = IdleDir /\ pre = IdleDir

NextNum == \E value \in NumValues : SubNumber(value)

SpecNum == InitNum /\ [][NextNum]_vars

StrAlphabet == {"o", " ", "#", "\n", "x", ":"}
StrValues == { [kind |-> "str", s |-> <<"n", "e", "w">>], [kind |-> "str", s |-> <<"b">>] }

SubString(value) ==
    /\ result' = ReplacementOfString_sub(varname, assign_operator, value, text)
    /\ call' = [op |-> "sub_string", value |-> value]
    /\ UNCHANGED <<adapter, scenario_inputs, inputs, pre, raised, text>>

InitStr ==
    /\ AdapterIdle
    /\ text \in TextsOver(StrAlphabet)
    /\ result = IdleText
    /\ call = NoCall
    /\ raised = NoError
    /\ scenario_inputs = IdleDir /\ inputs = IdleDir /\ pre = IdleDir

NextStr == \E value \in StrValues : SubString(value)

SpecStr == InitStr /\ [][NextStr]_vars

----------------------------------------------------------------------------
(* The template manipulations: _manipulate_income, _manipulate_bikes,      *)
(* _manipulate_transit and _manipulate_fuel_cost                           *)

\* A template is a sequence of pieces of text: the two underscores that open
\* and close a marker, the word EMAT_PROVIDES_, a name, a comma, other text,
\* and the characters of numbers.
Marker(n) == <<"__", "EMAT_PROVIDES_", n, "__">>     \* f"__EMAT_PROVIDES_{n}__"

\* y.replace(old, new): every occurrence, leftmost first, not overlapping
RECURSIVE replace_first_only(_, _, _, _), replace_from(_, _, _, _)
replace_first_only(y, old, new, i) ==
    IF i > Len(y) THEN <<>>
    ELSE IF StartsWith(y, i, old) THEN new \o Slice(y, i + Len(old), Len(y) + 1)
    ELSE <<y[i]>> \o replace_first_only(y, old, new, i + 1)
replace_from(y, old, new, i) ==
    IF i > Len(y) THEN <<>>
    ELSE IF StartsWith(y, i, old) THEN new \o replace_from(y, old, new, i + Len(old))
    ELSE <<y[i]>> \o replace_from(y, old, new, i + 1)
replace_once(y, old, new) == replace_first_only(y, old, new, 1)
replace(y, old, new) == replace_from(y, old, new, 1)

\* f"{x:.3f}" of a number x >= 0 given as whole units and ten-thousandths
Pad3(m) == <<Digits[(m \div 100) + 1], Digits[((m \div 10) % 10) + 1], Digits[(m % 10) + 1]>>
Format3(whole, e4) ==
    LET m == RoundHalfEven(e4, 10)
    IN  IF m = 1000 THEN Dec(whole + 1) \o <<".">> \o Pad3(0)
        ELSE Dec(whole) \o <<".">> \o Pad3(m)
\* tenths * (whole + milli/1000), as whole units and ten-thousandths
Times(tenths, whole, milli) ==
    LET e4 == ((tenths * whole) % 10) * 1000 + tenths * milli
    IN  [whole |-> (tenths * whole) \div 10 + e4 \div 10000, e4 |-> e4 % 10000]

\* the loop over computed_params.keys(), in the order the keys were inserted
RECURSIVE ReplaceMarkers(_, _, _)
ReplaceMarkers(y, names, formatted) ==
    IF names = <<>> THEN y
    ELSE ReplaceMarkers(replace(y, Marker(Head(names)), formatted[Head(names)]),
                        Tail(names), formatted)

\* computed_params of each manipulation, already formatted as the loop formats them
IncomeNames == <<"HHIncomePC", "GQIncomePC">>
IncomeFormatted(params) ==
    [HHIncomePC |-> str([kind |-> "int", n |-> params.Income]),
     GQIncomePC |-> str([kind |-> "int", n |-> (params.Income * 3) \div 13])]
BikesNames == <<"BikeDiversion">>
BikesFormatted(params) ==
    [BikeDiversion |-> Format3(params.Bicycles \div 10000, params.Bicycles % 10000)]
TransitNames == <<"DRRevMi", "MBRevMi">>
TransitFormatted(params) ==
    [DRRevMi |-> LET v == Times(params.Transit, 2381994, 664) IN Format3(v.whole, v.e4),
     MBRevMi |-> LET v == Times(params.Transit, 3580237, 203) IN Format3(v.whole, v.e4)]
FuelNames == <<"FuelCost", "ElectricCost">>
FuelFormatted(params) ==
    [FuelCost |-> Format3(params.FuelCost \div 10000, params.FuelCost % 10000),
     ElectricCost |-> Format3(params.ElectricCost \div 10000, params.ElectricCost % 10000)]

Manipulations == {"income", "bikes", "transit", "fuel_cost"}
TemplateOf(m) ==
    CASE m = "income" -> <<"I", "azone_per_cap_inc.csv.template">>
      [] m = "bikes" -> <<"B", "azone_prop_sov_dvmt_diverted.csv.template">>
      [] m = "transit" -> <<"T", "marea_transit_service.csv.template">>
      [] m = "fuel_cost" -> <<"G", "azone_fuel_power_cost.csv.template">>
OutputOf(m) ==
    CASE m = "income" -> "azone_per_cap_inc.csv"
      [] m = "bikes" -> "azone_prop_sov_dvmt_diverted.csv"
      [] m = "transit" -> "marea_transit_service.csv"
      [] m = "fuel_cost" -> "azone_fuel_power_cost.csv"
NamesOf(m) ==
    CASE m = "income" -> IncomeNames
      [] m = "bikes" -> BikesNames
      [] m = "transit" -> TransitNames
      [] m = "fuel_cost" -> FuelNames
FormattedOf(m, params) ==
    CASE m = "income" -> IncomeFormatted(params)
      [] m = "bikes" -> BikesFormatted(params)
      [] m = "transit" -> TransitFormatted(params)
      [] m = "fuel_cost" -> FuelFormatted(params)

\* read the template, replace the markers, write the result to the inputs directory
manipulate_template(m, params) ==
    /\ inputs' = [inputs EXCEPT ![OutputOf(m)] =
                    File(ReplaceMarkers(scenario_inputs[TemplateOf(m)], NamesOf(m), FormattedOf(m, params)))]
    /\ pre' = inputs
    /\ raised' = NoError
    /\ call' = [op |-> m, params |-> params]
    /\ UNCHANGED <<adapter, scenario_inputs, text, result>>

\* the experiment parameters the manipulations read: Income in dollars,
\* Transit in tenths, Bicycles, FuelCost and ElectricCost in ten-thousandths
ParamChoices ==
    { [Income |-> 46300, Bicycles |-> 2000, Transit |-> 10, FuelCost |-> 37500, ElectricCost |-> 1236],
      [Income |-> 13, Bicycles |-> 1236, Transit |-> 12, FuelCost |-> 49996, ElectricCost |-> 800] }

manipulate_income == \E params \in ParamChoices : manipulate_template("income", params)
manipulate_bikes == \E params \in ParamChoices : manipulate_template("bikes", params)
manipulate_transit == \E params \in ParamChoices : manipulate_template("transit", params)
manipulate_fuel_cost == \E params \in ParamChoices : manipulate_template("fuel_cost", params)

\* The templates: up to MaxChunks chunks, each the marker of the first or of
\* the last computed parameter of the manipulation, the marker of a name no
\* manipulation provides, or other text.
MaxChunks == 3
ChunkKinds == {"first", "last", "other", "text"}
ChunkText(kind, m) ==
    CASE kind = "first" -> Marker(NamesOf(m)[1])
      [] kind = "last" -> Marker(NamesOf(m)[Len(NamesOf(m))])
      [] kind = "other" -> Marker("Other")
      [] kind = "text" -> <<",">>
RECURSIVE TemplateText(_, _)
TemplateText(shape, m) ==
    IF shape = <<>> THEN <<>> ELSE ChunkText(Head(shape), m) \o TemplateText(Tail(shape), m)

InitTpl ==
    /\ AdapterIdle
    /\ \E shape \in Seqs(ChunkKinds, MaxChunks) :
            scenario_inputs = [p \in { TemplateOf(m) : m \in Manipulations } |->
                                  TemplateText(shape, CHOOSE m \in Manipulations : TemplateOf(m) = p)]
    /\ inputs = [n \in { OutputOf(m) : m \in Manipulations } |-> Absent]
    /\ pre = inputs
    /\ call = NoCall
    /\ raised = NoError
    /\ text = IdleText
    /\ result = IdleText

NextTpl ==
    \/ manipulate_income
    \/ manipulate_bikes
    \/ manipulate_transit
    \/ manipulate_fuel_cost

SpecTpl == InitTpl /\ [][NextTpl]_vars

----------------------------------------------------------------------------
(* The categorical drop-in: _manipulate_by_categorical_drop_in and its      *)
(* callers _manipulate_land_use and _manipulate_vehicle_travel_cost         *)

DropNames == {"a.csv", "b.csv"}
NoDir == [kind |-> "nodir"]            \* the directory does not exist
None == "None"                         \* what dict.get returns for a missing key
TypeError == [type |-> "TypeError"]    \* os.path.join of a None component

land_use_mapping == [base |-> "1", growth |-> "2"]
vehicle_travel_cost_mapping ==
    [c \in {"base", "steady ownership cost", "pay-per-mile insurance and higher cost"} |->
        CASE c = "base" -> "1"
          [] c = "steady ownership cost" -> "2"
          [] c = "pay-per-mile insurance and higher cost" -> "3"]
\* cat_mapping.get(key, '1'): a miss falls back to the first directory
get_or_first(cat_mapping, key) == IF key \in DOMAIN cat_mapping THEN cat_mapping[key] ELSE "1"
\* cat_mapping.get(key)
get(cat_mapping, key) == IF key \in DOMAIN cat_mapping THEN cat_mapping[key] ELSE None

\* the loop over os.scandir: every regular file of the source directory is
\* copied over the file of the same name
copy_all_entries(inp, source) ==
    [n \in DOMAIN inp |-> IF source[n] # Absent THEN source[n] ELSE inp[n]]
copy_files(inp, source) ==
    [n \in DOMAIN inp |-> IF IsFile(source[n]) THEN source[n] ELSE inp[n]]

manipulate_by_categorical_drop_in(value, cat_mapping, ve_scenario_dir) ==
    LET scenario_dir == get(cat_mapping, value)
    IN  /\ IF scenario_dir = None
             THEN raised' = TypeError /\ inputs' = inputs
           ELSE IF scenario_inputs[<<ve_scenario_dir, scenario_dir>>] = NoDir
             THEN /\ raised' = FileNotFoundError(<<ve_scenario_dir, scenario_dir>>)
                  /\ inputs' = inputs
           ELSE /\ raised' = NoError
                /\ inputs' = copy_files(inputs, scenario_inputs[<<ve_scenario_dir, scenario_dir>>])
        /\ pre' = inputs
        /\ UNCHANGED <<adapter, scenario_inputs, text, result>>

\* params['LandUse'] and params['VehicleTravelCost']; "other" is no category
LandUseValues == {"base", "growth", "other"}
VehicleTravelCostValues ==
    {"base", "steady ownership cost", "pay-per-mile insurance and higher cost"}

manipulate_land_use ==
    \E value \in LandUseValues :
        /\ manipulate_by_categorical_drop_in(value, land_use_mapping, "L")
        /\ call' = [op |-> "land_use", value |-> value, dir |-> "L",
                    sub |-> get(land_use_mapping, value)]
manipulate_vehicle_travel_cost ==
    \E value \in VehicleTravelCostValues :
        /\ manipulate_by_categorical_drop_in(value, vehicle_travel_cost_mapping, "C")
        /\ call' = [op |-> "vehicle_travel_cost", value |-> value, dir |-> "C",
                    sub |-> get(vehicle_travel_cost_mapping, value)]

\* A source directory is missing, or holds under each name a regular file, a
\* subdirectory or nothing; a file is known by the path it was first read from.
SourceFile(ve, sub, n) == File(<<ve, sub, n>>)
Listings(ve, sub) ==
    { [n \in DropNames |-> IF n \in files THEN SourceFile(ve, sub, n)
                           ELSE IF n \in dirs THEN SubDir ELSE Absent] :
        files \in SUBSET DropNames, dirs \in SUBSET {"b.csv"} }
DropDirs == {<<"L", "1">>, <<"L", "2">>, <<"C", "1">>, <<"C", "2">>, <<"C", "3">>}

InitDrop ==
    /\ AdapterIdle
    /\ \E l1 \in Listings("L", "1"), l2 \in Listings("L", "2") \cup {NoDir},
          c \in Listings("C", "2") :
            scenario_inputs = [d \in DropDirs |->
                CASE d = <<"L", "1">> -> l1
                  [] d = <<"L", "2">> -> l2
                  [] d = <<"C", "1">> -> [n \in DropNames |-> SourceFile("C", "1", n)]
                  [] d = <<"C", "2">> -> c
                  [] d = <<"C", "3">> -> [n \in DropNames |-> Absent]]
    /\ inputs \in { [n \in DropNames |-> Absent],
                    [n \in DropNames |-> File(<<"VERSPM", "inputs", n>>)] }
    /\ pre = inputs
    /\ call = NoCall
    /\ raised = NoError
    /\ text = IdleText
    /\ result = IdleText

NextDrop ==
    \/ manipulate_land_use
    \/ manipulate_vehicle_travel_cost

SpecDrop == InitDrop /\ [][NextDrop]_vars

----------------------------------------------------------------------------
(* run and last_run_logs *)

csv == <<".", "c", "s", "v">>
EndsWith(s, lit) == Len(s) >= Len(lit) /\ StartsWith(s, Len(s) - Len(lit) + 1, lit)

\* renamer without its leading (.*), tried at position i:
\* _202[0-9]-[0-9]+-[0-9]+_[0-9]+(\.csv); the position after it, or NoMatch
StampAt(s, i) ==
    IF ~(/\ StartsWith(s, i, <<"_", "2", "0", "2">>)
         /\ i + 4 <= Len(s) /\ IsDigit(s[i + 4])
         /\ StartsWith(s, i + 5, <<"-">>))
      THEN NoMatch
    ELSE LET j == SkipDigits(s, i + 6)
         IN  IF j = i + 6 \/ ~StartsWith(s, j, <<"-">>) THEN NoMatch
             ELSE LET k == SkipDigits(s, j + 1)
                  IN  IF k = j + 1 \/ ~StartsWith(s, k, <<"_">>) THEN NoMatch
                      ELSE LET l == SkipDigits(s, k + 1)
                           IN  IF l = k + 1 \/ ~StartsWith(s, l, csv) THEN NoMatch
                               ELSE l + Len(csv)
\* renamer.match(outfile): the greedy (.*) ends before the last place the rest matches
Stamps(s) == { i \in 1..Len(s) : StampAt(s, i) # NoMatch }
renamer_match(s) == Stamps(s) # {}
\* renamer.sub(r"\1\2", outfile): after the last stamp no other match begins
renamer_sub(s) ==
    LET i == CHOOSE a \in Stamps(s) : \A b \in Stamps(s) : b <= a
    IN  Slice(s, 1, i) \o csv \o Slice(s, StampAt(s, i), Len(s) + 1)

\* The names the output directory is watched under: what the external model
\* writes, what the renaming makes of it, and the log.
M == <<"M", "a", "r", "e", "a", "_", "2", "0", "3", "8", "_", "1">>
Household == <<"H", "o", "u", "s", "e", "h", "o", "l", "d", "_", "2", "0", "3", "8", "_", "1">>
Stamped(base, year, day) ==
    base \o <<"_">> \o year \o <<"-", "3", "-">> \o day \o <<"_", "7">> \o csv
Produced ==
    { Stamped(M, <<"2", "0", "2", "1">>, <<"4">>),
      Stamped(M, <<"2", "0", "2", "1">>, <<"1", "2">>),
      Stamped(M, <<"2", "0", "3", "0">>, <<"4">>) }
stdout_log == <<"stdout.log">>
ComputedMeasures_json == <<"ComputedMeasures.json">>
OutNames == Produced \cup {M \o csv, Household \o csv, stdout_log, ComputedMeasures_json}
\* the tables the external model writes for the metropolitan area and for
\* the households
marea_rows == <<[ComSvcUrbanGGE |-> 3, ComSvcNonUrbanGGE |-> 1]>>
household_rows ==
    <<[HhSize |-> 2, Dvmt |-> 30, WalkTrips |-> 1, DailyCO2e |-> 20, DailyGGE |-> 2,
       AveVehCostPM |-> 1, OwnCost |-> 10, Income |-> 30000],
      [HhSize |-> 3, Dvmt |-> 50, WalkTrips |-> 4, DailyCO2e |-> 35, DailyGGE |-> 3,
       AveVehCostPM |-> 2, OwnCost |-> 20, Income |-> 15000]>>
NamedAfter(n, base) == Len(n) >= Len(base) /\ SubSeq(n, 1, Len(base)) = base
Written(n) ==
    File([as |-> n, rows |-> IF NamedAfter(n, Household) THEN household_rows ELSE marea_rows])

\* renamer.match and renamer.sub of every name
renamed ==
    [n \in OutNames |-> [match |-> renamer_match(n),
                         sub |-> IF renamer_match(n) THEN renamer_sub(n) ELSE n]]

\* glob.glob(<output>/*.csv)
glob_csv(out) == { n \in DOMAIN out : out[n] # Absent /\ EndsWith(n, csv) }

FileExistsError(path) == [type |-> "FileExistsError", arg |-> path]
\* the renaming loop from the i-th name of the glob list on; os.rename
\* replaces an existing file, except on Windows where it raises
RECURSIVE rename_all(_, _, _, _)
rename_all(out, order, i, system) ==
    IF i > Len(order) THEN [output |-> out, raised |-> NoError]
    ELSE IF ~renamed[order[i]].match THEN rename_all(out, order, i + 1, system)
    ELSE LET newname == renamed[order[i]].sub
         IN  IF system = "Windows" /\ out[newname] # Absent
               THEN [output |-> out, raised |-> FileExistsError(newname)]
             ELSE rename_all([out EXCEPT ![newname] = out[order[i]], ![order[i]] = Absent],
                             order, i + 1, system)

CalledProcessError(res) ==
    [type |-> "CalledProcessError", returncode |-> res.returncode, cmd |-> res.args,
     output |-> res.stdout, stderr |-> res.stderr]
write_log(out, stdout) == [out EXCEPT ![stdout_log] = File(stdout)]

\* run() after subprocess.run has returned res and left the output directory
\* as `left`: the check of the return code, the log, the renaming
finish_run_logged(res, left, order, system) ==
    IF res.returncode # 0
      THEN [output |-> write_log(left, res.stdout), raised |-> CalledProcessError(res)]
      ELSE rename_all(write_log(left, res.stdout), order, 1, system)
finish_run(res, left, order, system) ==
    IF res.returncode # 0
      THEN [output |-> left, raised |-> CalledProcessError(res)]
      ELSE rename_all(write_log(left, res.stdout), order, 1, system)

\* what the external runtime may do: exit with a code and captured streams
\* (bytes, b"" being false), having written files that each hold a table and
\* the name they were written as
Outcomes ==
    { [returncode |-> 0, stdout |-> "lines", stderr |-> ""],
      [returncode |-> 0, stdout |-> "", stderr |-> "lines"],
      [returncode |-> 1, stdout |-> "lines", stderr |-> "lines"],
      [returncode |-> 2, stdout |-> "", stderr |-> ""] }
Writes ==
    { {},
      {Stamped(M, <<"2", "0", "2", "1">>, <<"4">>)},
      {Stamped(M, <<"2", "0", "2", "1">>, <<"4">>), Stamped(M, <<"2", "0", "2", "1">>, <<"1", "2">>)},
      {Stamped(M, <<"2", "0", "3", "0">>, <<"4">>)} }
written_by_subprocess(out, produced) ==
    [n \in DOMAIN out |-> IF n \in produced THEN Written(n) ELSE out[n]]
cmd == IF platform = "Windows" THEN "Rscript.exe" ELSE "Rscript"
args == <<cmd, "verspm_runner.R">>
runner_files == [n \in {"verspm_runner.R", ".Rprofile"} |-> File(n)]

\* the streams of the last subprocess that returned, as the calls saw them
Seen(c) == IF "seen" \in DOMAIN c THEN c.seen ELSE Unset

\* run() when the runtime cannot be started: subprocess.run raises
run_not_started ==
    /\ workdir' = [n \in DOMAIN workdir |->
                        IF n \in DOMAIN runner_files THEN runner_files[n] ELSE workdir[n]]
    /\ raised' = FileNotFoundError(<<cmd>>)
    /\ call' = [op |-> "run", started |-> FALSE, seen |-> Seen(call)]
    /\ UNCHANGED <<scenario_inputs, inputs, pre, text, result,
                   output, last_run_result, completed, platform,
                   local_directory, worker, master_tree,
                   cwd, archive_dir, zips,
                   trees, procs>>

run_started ==
    \E outcome \in Outcomes, produced \in Writes :
        LET returncode == outcome.returncode
            stdout == outcome.stdout
            stderr == outcome.stderr
            res == [returncode |-> returncode, args |-> args,
                    stdout |-> stdout, stderr |-> stderr]
            left == written_by_subprocess(output, produced)
        IN  \E order \in Orders(glob_csv(left)) :
                LET end == finish_run(res, left, order, platform)
                IN  /\ workdir' = [n \in DOMAIN workdir |->
                                        IF n \in DOMAIN runner_files THEN runner_files[n] ELSE workdir[n]]
                    /\ last_run_result' = res
                    /\ output' = end.output
                    /\ raised' = end.raised
                    /\ completed' = IF end.raised = NoError THEN "run" ELSE completed
                    /\ call' = [op |-> "run", started |-> TRUE, returncode |-> returncode,
                                stdout |-> stdout, stderr |-> stderr, left |-> left,
                                was |-> completed,
                                renaming |-> SelectSeq(order, LAMBDA n : renamed[n].match),
                                seen |-> [stdout |-> stdout, stderr |-> stderr]]
                    /\ UNCHANGED <<scenario_inputs, inputs, pre, text, result, platform,
                                   local_directory, worker, master_tree,
                                   cwd, archive_dir, zips,
                                   trees, procs>>

run == run_not_started \/ run_started

\* last_run_logs(output) with output collecting the lines
last_run_logs_always_end ==
    IF last_run_result = Unset THEN <<"no run stored", "=== END OF LOG ===">>
    ELSE (IF last_run_result.stdout # "" THEN <<"=== STDOUT ===", last_run_result.stdout>> ELSE <<>>)
      \o (IF last_run_result.stderr # "" THEN <<"=== STDERR ===", last_run_result.stderr>> ELSE <<>>)
      \o <<"=== END OF LOG ===">>
last_run_logs_lines ==
    IF last_run_result = Unset THEN <<"no run stored">>
    ELSE (IF last_run_result.stdout # "" THEN <<"=== STDOUT ===", last_run_result.stdout>> ELSE <<>>)
      \o (IF last_run_result.stderr # "" THEN <<"=== STDERR ===", last_run_result.stderr>> ELSE <<>>)
      \o <<"=== END OF LOG ===">>
last_run_logs ==
    /\ result' = last_run_logs_lines
    /\ raised' = NoError
    /\ call' = [op |-> "last_run_logs", seen |-> Seen(call)]
    /\ UNCHANGED <<scenario_inputs, inputs, pre, text,
                   output, workdir, last_run_result, completed, platform,
                   local_directory, worker, master_tree,
                   cwd, archive_dir, zips,
                   trees, procs>>

InitRun ==
    /\ output \in { [n \in OutNames |-> Absent],
                    [n \in OutNames |-> IF n = M \o csv THEN Written(n) ELSE Absent] }
    /\ workdir = [n \in {"verspm_runner.R", ".Rprofile"} |-> Absent]
    /\ last_run_result = Unset
    /\ completed = "setup"
    /\ platform \in {"Linux", "Windows"}
    /\ local_directory = "master"
    /\ worker = NoWorker
    /\ master_tree = Unset
    /\ cwd = "master"
    /\ archive_dir = <<>>
    /\ zips = <<>>
    /\ trees = <<>>
    /\ procs = <<>>
    /\ call = NoCall
    /\ raised = NoError
    /\ result = IdleText
    /\ text = IdleText
    /\ scenario_inputs = IdleDir /\ inputs = IdleDir /\ pre = IdleDir

NextRun ==
    \/ run
    \/ last_run_logs

SpecRun == InitRun /\ [][NextRun]_vars
----------------------------------------------------------------------------
(* setup: the defaults, the check of the keys, the copy to a worker's       *)
(* directory and the twelve manipulations in their order                    *)

\* scope.get_parameters(): the parameters the manipulations read
ScopeParameters ==
    {"ValueOfTime", "Income", "Bicycles", "LandUse", "Transit", "FuelCost", "ElectricCost",
     "TechMix", "Parking", "DemandManagement", "VehicleCharacteristics", "DrivingEfficiency",
     "VehicleTravelCost"}
\* p.default of each
default ==
    [ValueOfTime |-> 15, Income |-> 46300, Bicycles |-> 2000, LandUse |-> "base",
     Transit |-> 10, FuelCost |-> 37500, ElectricCost |-> 1236,
     TechMix |-> 0, Parking |-> 0, DemandManagement |-> 0, VehicleCharacteristics |-> 0,
     DrivingEfficiency |-> 0, VehicleTravelCost |-> "base"]

\* the loop that gives every absent scope parameter its default
defaults_over_given(params) ==
    [k \in DOMAIN params \cup ScopeParameters |->
        IF k \in ScopeParameters THEN default[k] ELSE params[k]]
fill_defaults(params) ==
    [k \in DOMAIN params \cup ScopeParameters |->
        IF k \in DOMAIN params THEN params[k] ELSE default[k]]

\* super().setup(params): a key that is no parameter of the scope is a KeyError
KeyError == [type |-> "KeyError"]
super_setup(params) ==
    IF \E k \in DOMAIN params : k \notin ScopeParameters THEN KeyError ELSE NoError

\* The manipulations, each taking the files and the exception so far and
\* giving them back; nothing runs after an exception.
model_parameters_json == "defs/model_parameters.json"
manipulate_model_parameters_json(st, params) ==
    IF st.raised # NoError THEN st
    ELSE [st EXCEPT !.workdir[model_parameters_json] =
            File([@.data EXCEPT ![1].VALUE = str([kind |-> "int", n |-> params.ValueOfTime])])]

template_into(st, m, params) ==
    IF st.raised # NoError THEN st
    ELSE [st EXCEPT !.inputs[OutputOf(m)] =
            File(ReplaceMarkers(scenario_inputs[TemplateOf(m)], NamesOf(m), FormattedOf(m, params)))]

drop_in(st, value, cat_mapping, ve_scenario_dir) ==
    IF st.raised # NoError THEN st
    ELSE LET scenario_dir == get(cat_mapping, value)
         IN  IF scenario_dir = None THEN [st EXCEPT !.raised = TypeError]
             ELSE IF scenario_inputs[<<ve_scenario_dir, scenario_dir>>] = NoDir
               THEN [st EXCEPT !.raised = FileNotFoundError(<<ve_scenario_dir, scenario_dir>>)]
             ELSE [st EXCEPT !.inputs = copy_files(@, scenario_inputs[<<ve_scenario_dir, scenario_dir>>])]

mixture_into(st, weight_2, ve_scenario_dir, order) ==
    IF st.raised # NoError THEN st
    ELSE LET out == manipulate_by_mixture(st.inputs, scenario_inputs[<<ve_scenario_dir, "1">>],
                        scenario_inputs[<<ve_scenario_dir, "2">>], ve_scenario_dir,
                        weight_2, DefaultNoMix, order)
         IN  [st EXCEPT !.inputs = out.inputs, !.raised = out.raised]

\* the directory and the weight parameter of each mixture
MixDirs == {"F", "P", "D", "V", "E"}
weight_param(ve) ==
    CASE ve = "F" -> "TechMix"
      [] ve = "P" -> "Parking"
      [] ve = "D" -> "DemandManagement"
      [] ve = "V" -> "VehicleCharacteristics"
      [] ve = "E" -> "DrivingEfficiency"

\* lines 305 to 316: the manipulations in the order setup calls them, scan[ve]
\* being the order in which os.scandir lists directory "1" of ve
manipulations(st, params, scan) ==
    LET s1 == manipulate_model_parameters_json(st, params)
        s2 == template_into(s1, "income", params)
        s3 == template_into(s2, "bikes", params)
        s4 == drop_in(s3, params.LandUse, land_use_mapping, "L")
        s5 == template_into(s4, "transit", params)
        s6 == template_into(s5, "fuel_cost", params)
        s7 == mixture_into(s6, params.TechMix, "F", scan["F"])
        s8 == mixture_into(s7, params.Parking, "P", scan["P"])
        s9 == mixture_into(s8, params.DemandManagement, "D", scan["D"])
        s10 == mixture_into(s9, params.VehicleCharacteristics, "V", scan["V"])
        s11 == mixture_into(s10, params.DrivingEfficiency, "E", scan["E"])
    IN  drop_in(s11, params.VehicleTravelCost, vehicle_travel_cost_mapping, "C")

\* os.scandir of directory "1" of every mixture
entries(dir) == { n \in DOMAIN dir : dir[n] # Absent }
ScanOrders(ve) == Orders(entries(scenario_inputs[<<ve, "1">>]))

\* the experiments setup is called with
FullParams(land_use, weight) ==
    [ValueOfTime |-> 13, Income |-> 13, Bicycles |-> 1236, LandUse |-> land_use,
     Transit |-> 12, FuelCost |-> 49996, ElectricCost |-> 800,
     TechMix |-> weight, Parking |-> weight, DemandManagement |-> 5,
     VehicleCharacteristics |-> 10, DrivingEfficiency |-> 12,
     VehicleTravelCost |-> "steady ownership cost"]
ParamSets ==
    { FullParams(land_use, weight) : land_use \in LandUseValues, weight \in {0, 3} }
    \cup { [ValueOfTime |-> 13, Income |-> 13],
           [name_not_in_scope |-> "is_a_problem"],
           [LandUse |-> "growth", name_not_in_scope |-> "is_a_problem"] }

setup ==
    \E params \in ParamSets :
        LET filled == fill_defaults(params)
            checked == super_setup(filled)
            switch == worker # NoWorker /\ local_directory # worker
        IN  /\ pre' = inputs
            /\ call' = [op |-> "setup", params |-> params, switch |-> switch,
                        workdir |-> workdir, was |-> completed]
            /\ IF checked # NoError
                 THEN /\ raised' = checked
                      /\ UNCHANGED <<inputs, workdir, local_directory, master_tree, completed>>
                 ELSE \E f \in ScanOrders("F"), p \in ScanOrders("P"), d \in ScanOrders("D"),
                         v \in ScanOrders("V"), e \in ScanOrders("E") :
                        LET scan == [F |-> f, P |-> p, D |-> d, V |-> v, E |-> e]
                            end == manipulations([inputs |-> inputs, workdir |-> workdir,
                                                  raised |-> NoError], filled, scan)
                        IN  /\ local_directory' = IF switch THEN worker ELSE local_directory
                            /\ master_tree' =
                                  IF switch THEN [inputs |-> inputs, workdir |-> workdir,
                                                  output |-> output]
                                  ELSE master_tree
                            /\ inputs' = end.inputs
                            /\ workdir' = end.workdir
                            /\ raised' = end.raised
                            /\ completed' = IF end.raised = NoError THEN "setup" ELSE completed
            /\ UNCHANGED <<scenario_inputs, text, result, output, last_run_result,
                           platform, worker, cwd, archive_dir, zips,
                           trees, procs>>

\* The scenario_inputs tree and the working tree setup starts from.
SetupNames ==
    { OutputOf(m) : m \in Manipulations }
    \cup {"l.csv", "only1.csv", "c.csv"} \cup { ve \o ".csv" : ve \in MixDirs }
Listing(files) == [n \in SetupNames |-> IF n \in DOMAIN files THEN files[n] ELSE Absent]
SetupTree(complete) ==
    [p \in { TemplateOf(m) : m \in Manipulations }
           \cup {<<"L", "1">>, <<"L", "2">>, <<"C", "1">>, <<"C", "2">>, <<"C", "3">>}
           \cup (MixDirs \X {"1", "2"}) |->
        IF p \in { TemplateOf(m) : m \in Manipulations }
          THEN TemplateText(<<"first", "text", "last">>,
                            CHOOSE m \in Manipulations : TemplateOf(m) = p)
        ELSE IF p = <<"L", "1">>
          THEN Listing([n \in {"l.csv", "only1.csv"} |-> SourceFile("L", "1", n)])
        ELSE IF p = <<"L", "2">>
          THEN Listing([n \in {"l.csv"} |-> SourceFile("L", "2", n)])
        ELSE IF p[1] = "C"
          THEN Listing([n \in {"c.csv"} |-> SourceFile("C", p[2], n)])
        ELSE IF p[2] = "1"
          THEN Listing([n \in {p[1] \o ".csv"} |-> File(Tables[1])])
        ELSE IF p[1] = "P" /\ ~complete
          THEN Listing(<<>>)
        ELSE Listing([n \in {p[1] \o ".csv"} |-> File(Tables[2])])]

InitSetup ==
    /\ \E complete \in BOOLEAN : scenario_inputs = SetupTree(complete)
    /\ inputs \in { [n \in SetupNames |-> Absent],
                    [n \in SetupNames |-> File(<<"VERSPM", "inputs", n>>)] }
    /\ pre = inputs
    /\ workdir = [n \in {model_parameters_json, "verspm_runner.R", ".Rprofile"} |->
                    IF n = model_parameters_json
                      THEN File(<<[NAME |-> "ValueOfTime", VALUE |-> <<"1", "6">>]>>)
                      ELSE Absent]
    /\ output = [n \in OutNames |-> Absent]
    /\ last_run_result = Unset
    /\ completed = "none"
    /\ platform = "Linux"
    /\ local_directory = "master"
    /\ worker \in {NoWorker, "master", "worker-1"}
    /\ master_tree = Unset
    /\ cwd = "master"
    /\ archive_dir = <<>>
    /\ zips = <<>>
    /\ trees = <<>>
    /\ procs = <<>>
    /\ call = NoCall
    /\ raised = NoError
    /\ text = IdleText
    /\ result = IdleText

NextSetup == setup

SpecSetup == InitSetup /\ [][NextSetup]_vars
----------------------------------------------------------------------------
(* post_process and archive *)

\* .sum() of a column, of a product of columns, and of both under a row mask
RECURSIVE Sum(_)
Sum(values) == IF values = <<>> THEN 0 ELSE Head(values) + Sum(Tail(values))
Column(rows, c) == [i \in 1..Len(rows) |-> rows[i][c]]
Masked(values, mask) == [i \in 1..Len(values) |-> IF mask[i] THEN values[i] ELSE 0]
\* a quotient of two sums, kept as the pair (a zero divisor gives inf or nan)
Quotient(num, den) == [num |-> num, den |-> den]

\* deflators.csv: Year and Value (in hundredths) of each row
Deflators(years) ==
    File([i \in 1..Len(years) |-> [Year |-> years[i], Value |-> IF years[i] = 2005 THEN 90 ELSE 100]])
DeflatorFiles == { Deflators(<<2005, 2010>>), Deflators(<<2010, 2012>>),
                   Deflators(<<2005, 2012>>), Deflators(<<2012>>) }
deflators_csv == "defs/deflators.csv"
\* pd.read_csv(join_norm(self.model_path, 'defs', 'deflators.csv')): the path
\* is relative to the current working directory
deflators_path == <<cwd, deflators_csv>>
read_deflators ==
    LET dir == deflators_path[1]
    IN  IF dir = local_directory THEN workdir[deflators_path[2]]
        ELSE IF dir = "master" /\ master_tree # Unset
          THEN master_tree.workdir[deflators_path[2]]
        ELSE Absent

KeyErrorOf(message) == [type |-> "KeyError", arg |-> message]
\* a deflation that leaves the values as they are when ToYear is not found
deflateCurrency_or_same(deflators_df, FromYear, ToYear) ==
    LET index == [i \in 1..Len(deflators_df) |-> str([kind |-> "int", n |-> deflators_df[i].Year])]
        at(year) == CHOOSE i \in 1..Len(index) : index[i] = year
    IN  IF \A i \in 1..Len(index) : index[i] # FromYear
          THEN [raised |-> KeyErrorOf(<<"invalid FromYear", FromYear>>)]
        ELSE IF \A i \in 1..Len(index) : index[i] # ToYear
          THEN [raised |-> NoError, to |-> deflators_df[at(FromYear)].Value,
                from |-> deflators_df[at(FromYear)].Value]
        ELSE [raised |-> NoError, to |-> deflators_df[at(ToYear)].Value,
              from |-> deflators_df[at(FromYear)].Value]
\* deflateCurrency(values, FromYear, ToYear): the exception, or the two values
\* of the quotient
deflateCurrency(deflators_df, FromYear, ToYear) ==
    LET index == [i \in 1..Len(deflators_df) |-> str([kind |-> "int", n |-> deflators_df[i].Year])]
        at(year) == CHOOSE i \in 1..Len(index) : index[i] = year
    IN  IF \A i \in 1..Len(index) : index[i] # FromYear
          THEN [raised |-> KeyErrorOf(<<"invalid FromYear", FromYear>>)]
        ELSE IF \A i \in 1..Len(index) : index[i] # ToYear
          THEN [raised |-> KeyErrorOf(<<"invalid ToYear", ToYear>>)]
        ELSE [raised |-> NoError, to |-> deflators_df[at(ToYear)].Value,
              from |-> deflators_df[at(FromYear)].Value]

\* the keys the MappingParser registered for ComputedMeasures.json looks up
MappingParserKeys ==
    {"GHGReduction", "DVMTPerCapita", "WalkTravelPerCapita", "TruckDelay", "AirPollutionEm",
     "FuelUse", "VehicleCost", "VehicleCostLow"}
\* what the parser makes of a file: the value of every key, or the key it misses
MappingParser(file) ==
    IF MappingParserKeys \subseteq DOMAIN file.data
      THEN [raised |-> NoError, values |-> [k \in MappingParserKeys |-> file.data[k]]]
      ELSE [raised |-> KeyErrorOf(CHOOSE k \in MappingParserKeys : k \notin DOMAIN file.data)]
BaseYear == 2010
MeasureNames ==
    {"GHGReduction", "DVMTPerCapita", "WalkTravelPerCapita", "TruckDelay", "AirPollutionEm",
     "FuelUse", "VehicleCost", "VehicleCostLow"}

\* a result that leaves the measure of the low-income households out
measures_without_low(marea_2038, household_2038, deflated) ==
    LET population == Sum(Column(household_2038, "HhSize"))
        OperationCost == [i \in 1..Len(household_2038) |->
                            household_2038[i].AveVehCostPM * household_2038[i].Dvmt]
        TotalCost == [i \in 1..Len(household_2038) |->
                            household_2038[i].OwnCost + OperationCost[i]]
        IsLowIncome == [i \in 1..Len(household_2038) |->
                            household_2038[i].Income * deflated.to < 20000 * deflated.from]
    IN  [GHGReduction |-> Quotient(0, 1),
         DVMTPerCapita |-> Quotient(Sum(Column(household_2038, "Dvmt")), population),
         WalkTravelPerCapita |-> Quotient(Sum(Column(household_2038, "WalkTrips")), population),
         TruckDelay |-> Quotient(0, 1),
         AirPollutionEm |-> Quotient(Sum(Column(household_2038, "DailyCO2e")), 1),
         FuelUse |-> Quotient((Sum(Column(household_2038, "DailyGGE"))
                               + Sum(Column(marea_2038, "ComSvcUrbanGGE"))
                               + Sum(Column(marea_2038, "ComSvcNonUrbanGGE"))) * 365, 1),
         VehicleCost |-> Quotient(Sum(TotalCost) * 100, Sum(Column(household_2038, "Income")))]
\* the measures of lines 735 to 776, given the two tables and the deflators
measures(marea_2038, household_2038, deflated) ==
    LET population == Sum(Column(household_2038, "HhSize"))
        OperationCost == [i \in 1..Len(household_2038) |->
                            household_2038[i].AveVehCostPM * household_2038[i].Dvmt]
        TotalCost == [i \in 1..Len(household_2038) |->
                            household_2038[i].OwnCost + OperationCost[i]]
        IsLowIncome == [i \in 1..Len(household_2038) |->
                            household_2038[i].Income * deflated.to < 20000 * deflated.from]
    IN  [GHGReduction |-> Quotient(0, 1),
         DVMTPerCapita |-> Quotient(Sum(Column(household_2038, "Dvmt")), population),
         WalkTravelPerCapita |-> Quotient(Sum(Column(household_2038, "WalkTrips")), population),
         TruckDelay |-> Quotient(0, 1),
         AirPollutionEm |-> Quotient(Sum(Column(household_2038, "DailyCO2e")), 1),
         FuelUse |-> Quotient((Sum(Column(household_2038, "DailyGGE"))
                               + Sum(Column(marea_2038, "ComSvcUrbanGGE"))
                               + Sum(Column(marea_2038, "ComSvcNonUrbanGGE"))) * 365, 1),
         VehicleCost |-> Quotient(Sum(TotalCost) * 100, Sum(Column(household_2038, "Income"))),
         VehicleCostLow |-> Quotient(Sum(Masked(TotalCost, IsLowIncome)) * 100,
                                     Sum(Masked(Column(household_2038, "Income"), IsLowIncome)))]

\* json.dump(result, out): measure_names is not read
measures_written(all, measure_names) == all

\* post_process over the directory output_path names: the exception, and the
\* directory afterwards
post_process_in(dir, measure_names) ==
    IF dir[M \o csv] = Absent
      THEN [raised |-> FileNotFoundError(M \o csv), dir |-> dir]
    ELSE IF dir[Household \o csv] = Absent
      THEN [raised |-> FileNotFoundError(Household \o csv), dir |-> dir]
    ELSE IF read_deflators = Absent
      THEN [raised |-> FileNotFoundError(<<deflators_csv>>), dir |-> dir]
    ELSE LET deflated == deflateCurrency(read_deflators.data, str([kind |-> "int", n |-> BaseYear]),
                                         <<"2", "0", "0", "5">>)
         IN  IF deflated.raised # NoError THEN [raised |-> deflated.raised, dir |-> dir]
             ELSE [raised |-> NoError,
                   dir |-> [dir EXCEPT ![ComputedMeasures_json] =
                              File(measures_written(
                                     measures(dir[M \o csv].data.rows, dir[Household \o csv].data.rows,
                                              deflated),
                                     measure_names))]]

\* measure_names and output_path as callers give them
MeasureNameLists == {None, <<"FuelUse">>, <<"VehicleCost", "NoSuchMeasure">>}
post_process ==
    \E measure_names \in MeasureNameLists, output_path \in {None, "archive"} :
        LET end == post_process_in(IF output_path = None THEN output ELSE archive_dir,
                                   measure_names)
        IN  /\ raised' = end.raised
            /\ output' = IF output_path = None THEN end.dir ELSE output
            /\ archive_dir' = IF output_path = None THEN archive_dir ELSE end.dir
            /\ completed' = IF end.raised = NoError THEN "post_process" ELSE completed
            /\ call' = [op |-> "post_process", measure_names |-> measure_names,
                        output_path |-> output_path, was |-> completed,
                        output |-> output, archive_dir |-> archive_dir]
            /\ UNCHANGED <<scenario_inputs, inputs, pre, text, result, workdir, last_run_result,
                           platform, local_directory, worker, master_tree, cwd, zips,
                           trees, procs>>

\* The directories post_process may find.
PostOutputs ==
    { [n \in OutNames |-> IF n = M \o csv /\ marea THEN Written(n)
                          ELSE IF n = Household \o csv THEN Written(n)
                          ELSE IF n = ComputedMeasures_json /\ old
                            THEN File([FuelUse |-> Quotient(0, 1)])
                          ELSE Absent] : marea \in BOOLEAN, old \in BOOLEAN }
PostWorkdir(deflators) ==
    [n \in {model_parameters_json, deflators_csv, "verspm_runner.R", ".Rprofile"} |->
        IF n = model_parameters_json
          THEN File(<<[NAME |-> "ValueOfTime", VALUE |-> <<"1", "6">>]>>)
        ELSE IF n = deflators_csv THEN deflators
        ELSE Absent]

InitPost ==
    /\ output \in PostOutputs
    /\ archive_dir \in PostOutputs
    /\ \E deflators \in DeflatorFiles : workdir = PostWorkdir(deflators)
    /\ cwd \in {"master", "elsewhere"}
    /\ local_directory = "master"
    /\ worker = NoWorker
    /\ master_tree = Unset
    /\ zips = <<>>
    /\ trees = <<>>
    /\ procs = <<>>
    /\ last_run_result = Unset
    /\ completed = "run"
    /\ platform = "Linux"
    /\ call = NoCall
    /\ raised = NoError
    /\ text = IdleText
    /\ result = IdleText
    /\ scenario_inputs = IdleDir /\ inputs = IdleDir /\ pre = IdleDir

NextPost == post_process

SpecPost == InitPost /\ [][NextPost]_vars
\* archive(params, model_results_path): the output directory is zipped under
\* the path without its trailing separators
rstrip(path) == IF path = "archive/1/" THEN "archive/1" ELSE path
ArchivePaths == {"archive/1", "archive/1/"}
archive ==
    \E model_results_path \in ArchivePaths :
        LET zipname == rstrip(model_results_path)
        IN  /\ zips' = [z \in DOMAIN zips \cup {zipname} |->
                            IF z = zipname THEN output ELSE zips[z]]
            /\ raised' = NoError
            /\ completed' = "archive"
            /\ call' = [op |-> "archive", model_results_path |-> model_results_path,
                        was |-> completed]
            /\ UNCHANGED <<scenario_inputs, inputs, pre, text, result, output, workdir,
                           last_run_result, platform, local_directory, worker, master_tree,
                           cwd, archive_dir, trees, procs>>

\* The adapter from its construction on: the master copy of the model, its
\* output directory empty or holding the results of an earlier experiment, and
\* the results of an archived experiment beside it.
EarlierResults ==
    [n \in OutNames |-> IF n \in {M \o csv, Household \o csv} THEN Written(n) ELSE Absent]
InitLife ==
    /\ scenario_inputs = SetupTree(TRUE)
    /\ inputs = [n \in SetupNames |-> File(<<"VERSPM", "inputs", n>>)]
    /\ pre = inputs
    /\ workdir = PostWorkdir(Deflators(<<2005, 2010>>))
    /\ output \in {[n \in OutNames |-> Absent], EarlierResults}
    /\ archive_dir = EarlierResults
    /\ zips = <<>>
    /\ trees = <<>>
    /\ procs = <<>>
    /\ last_run_result = Unset
    /\ completed = "none"
    /\ platform = "Linux"
    /\ local_directory = "master"
    /\ worker \in {NoWorker, "worker-1"}
    /\ master_tree = Unset
    /\ cwd = "master"
    /\ call = NoCall
    /\ raised = NoError
    /\ text = IdleText
    /\ result = IdleText

\* One experiment: the four steps in their order, each at most once, any of
\* them left out, whatever the step before came to.
NextLife ==
    \/ call.op = "none" /\ setup
    \/ call.op \in {"none", "setup"} /\ run
    \/ call.op \in {"none", "setup", "run"} /\ post_process
    \/ call.op # "archive" /\ archive

SpecLife == InitLife /\ [][NextLife]_vars
----------------------------------------------------------------------------
(* setup on distributed workers *)

\* Every process holds its own copy of the model object; all of them share
\* the file system.  A tree is the inputs directory and the other files of
\* one <local_directory>/<model_path>.
Procs == {"p1", "p2"}
Directories == {"master", "worker-1", "worker-2"}
MasterTree ==
    [inputs |-> [n \in SetupNames |-> File(<<"VERSPM", "inputs", n>>)],
     workdir |-> PostWorkdir(Deflators(<<2005, 2010>>))]
NoTree ==
    [inputs |-> [n \in DOMAIN MasterTree.inputs |-> Absent],
     workdir |-> [n \in DOMAIN MasterTree.workdir |-> Absent]]

\* copy_tree(src, dst): every file of src is written into dst
copy_into(src, dst) == [n \in DOMAIN dst |-> IF src[n] # Absent THEN src[n] ELSE dst[n]]
copy_tree(src, dst) ==
    [inputs |-> copy_into(src.inputs, dst.inputs), workdir |-> copy_into(src.workdir, dst.workdir)]
files_of(tree) ==
    { n \in DOMAIN tree.inputs : tree.inputs[n] # Absent }
    \cup { n \in DOMAIN tree.workdir : tree.workdir[n] # Absent }

\* the manipulations of lines 305 to 316 one by one, order being the order in
\* which os.scandir lists directory "1" of a mixture
LastStep == 12
MixDirOf(i) ==
    CASE i = 7 -> "F" [] i = 8 -> "P" [] i = 9 -> "D" [] i = 10 -> "V" [] i = 11 -> "E"
manipulation(i, st, params, order) ==
    CASE i = 1 -> manipulate_model_parameters_json(st, params)
      [] i = 2 -> template_into(st, "income", params)
      [] i = 3 -> template_into(st, "bikes", params)
      [] i = 4 -> drop_in(st, params.LandUse, land_use_mapping, "L")
      [] i = 5 -> template_into(st, "transit", params)
      [] i = 6 -> template_into(st, "fuel_cost", params)
      [] i \in 7..11 -> mixture_into(st, params[weight_param(MixDirOf(i))], MixDirOf(i), order)
      [] i = 12 -> drop_in(st, params.VehicleTravelCost, vehicle_travel_cost_mapping, "C")
StepOrders(i) == IF i \in 7..11 THEN ScanOrders(MixDirOf(i)) ELSE {<<>>}
\* the files the i-th manipulation writes: those it puts into an empty inputs
\* directory, the first one writing the parameter file
written_files(i, st, params, order) ==
    IF i = 1 THEN {model_parameters_json}
    ELSE LET end == manipulation(i, [st EXCEPT !.inputs = [n \in DOMAIN @ |-> Absent]],
                                 params, order)
         IN  { n \in DOMAIN end.inputs : end.inputs[n] # Absent }

Returned == LastStep + 1
\* setup would switch but never assigns the worker's directory
setup_start_without_switch(p) ==
    /\ procs[p].pc = 0
    /\ LET me == procs[p]
           filled == fill_defaults(me.params)
           checked == super_setup(filled)
           switch == me.worker # NoWorker /\ me.local_directory # me.worker
       IN  IF checked # NoError
             THEN /\ procs' = [procs EXCEPT ![p].pc = Returned, ![p].raised = checked]
                  /\ UNCHANGED trees
             ELSE /\ trees' = IF switch
                                THEN [trees EXCEPT ![me.worker] =
                                        copy_tree(trees[me.local_directory], @)]
                                ELSE trees
                  /\ procs' = [procs EXCEPT
                        ![p].pc = 1,
                        ![p].params = filled,
                        ![p].copied = switch,
                        ![p].wrote = IF switch
                                       THEN { <<me.worker, n>> : n \in files_of(trees[me.local_directory]) }
                                       ELSE {}]
    /\ UNCHANGED <<scenario_inputs, inputs, pre, call, raised, text, result, output, workdir,
                   last_run_result, completed, platform, local_directory, worker, master_tree,
                   cwd, archive_dir, zips>>
\* lines 248 to 299 in process p: the defaults, super().setup, and the copy
\* into the worker's directory
setup_start(p) ==
    /\ procs[p].pc = 0
    /\ LET me == procs[p]
           filled == fill_defaults(me.params)
           checked == super_setup(filled)
           switch == me.worker # NoWorker /\ me.local_directory # me.worker
       IN  IF checked # NoError
             THEN /\ procs' = [procs EXCEPT ![p].pc = Returned, ![p].raised = checked]
                  /\ UNCHANGED trees
             ELSE /\ trees' = IF switch
                                THEN [trees EXCEPT ![me.worker] =
                                        copy_tree(trees[me.local_directory], @)]
                                ELSE trees
                  /\ procs' = [procs EXCEPT
                        ![p].pc = 1,
                        ![p].params = filled,
                        ![p].local_directory = IF switch THEN me.worker ELSE @,
                        ![p].copied = switch,
                        ![p].wrote = IF switch
                                       THEN { <<me.worker, n>> : n \in files_of(trees[me.local_directory]) }
                                       ELSE {}]
    /\ UNCHANGED <<scenario_inputs, inputs, pre, call, raised, text, result, output, workdir,
                   last_run_result, completed, platform, local_directory, worker, master_tree,
                   cwd, archive_dir, zips>>

\* one of lines 305 to 316 in process p
setup_manipulate(p) ==
    /\ procs[p].pc \in 1..LastStep
    /\ LET me == procs[p]
           dir == me.local_directory
           st == [inputs |-> trees[dir].inputs, workdir |-> trees[dir].workdir,
                  raised |-> NoError]
       IN  \E order \in StepOrders(me.pc) :
              LET end == manipulation(me.pc, st, me.params, order)
              IN  /\ trees' = [trees EXCEPT ![dir] =
                                  [inputs |-> end.inputs, workdir |-> end.workdir]]
                  /\ procs' = [procs EXCEPT
                        ![p].pc = IF end.raised # NoError THEN Returned ELSE @ + 1,
                        ![p].raised = end.raised,
                        ![p].wrote = IF end.raised # NoError THEN @
                                     ELSE @ \cup { <<dir, n>> :
                                            n \in written_files(me.pc, st, me.params, order) }]
    /\ UNCHANGED <<scenario_inputs, inputs, pre, call, raised, text, result, output, workdir,
                   last_run_result, completed, platform, local_directory, worker, master_tree,
                   cwd, archive_dir, zips>>

\* The experiments given to the processes, and where each process runs.
WorkerParams == {FullParams("base", 0), FullParams("growth", 3), FullParams("other", 0)}
WorkerDirs == {NoWorker, "master", "worker-1", "worker-2"}
InitWorkers ==
    /\ scenario_inputs = SetupTree(TRUE)
    /\ trees = [d \in Directories |-> IF d = "master" THEN MasterTree ELSE NoTree]
    /\ procs \in [Procs -> { [pc |-> 0, local_directory |-> "master", worker |-> w,
                              params |-> ps, raised |-> NoError, wrote |-> {},
                              copied |-> FALSE] : w \in WorkerDirs, ps \in WorkerParams }]
    /\ inputs = IdleDir /\ pre = IdleDir
    /\ output = <<>>
    /\ workdir = <<>>
    /\ last_run_result = Unset
    /\ completed = "none"
    /\ platform = "Linux"
    /\ local_directory = "master"
    /\ worker = NoWorker
    /\ master_tree = Unset
    /\ cwd = "master"
    /\ archive_dir = <<>>
    /\ zips = <<>>
    /\ call = NoCall
    /\ raised = NoError
    /\ text = IdleText
    /\ result = IdleText

NextWorkers == \E p \in Procs : setup_start(p) \/ setup_manipulate(p)

SpecWorkers == InitWorkers /\ [][NextWorkers]_vars
----------------------------------------------------------------------------
(* Claims about the blending engine, checked under SpecMix *)

Abs(x) == IF x < 0 THEN -x ELSE x
Dir1 == scenario_inputs[<<MixDir, "1">>]
Dir2 == scenario_inputs[<<MixDir, "2">>]
Blended == call.op = "mixture" /\ raised = NoError
BlendedNames == { n \in MixNames : IsFile(Dir1[n]) }
Cell1(n, r, c) == Dir1[n].data.rows[r][c]
Cell2(n, r, c) == Dir2[n].data.rows[r][c]
OutCell(n, r, c) == inputs[n].data.rows[r][c]
\* the weighted sum of two cells, in tenths of the cells' unit
Sum10(n, r, c) == Cell1(n, r, c) * (WOne - call.weight) + Cell2(n, r, c) * call.weight
MixedFloatCells == { <<n, r, c>> \in BlendedNames \X Rows \X Columns :
                        Dir1[n].data.dtype[c] = "float" /\ c \notin call.no_mix_cols }
MixedIntCells == { <<n, r, c>> \in BlendedNames \X Rows \X Columns :
                        Dir1[n].data.dtype[c] = "int" /\ c \notin call.no_mix_cols }
PassedCells == { <<n, r, c>> \in BlendedNames \X Rows \X Columns :
                        c \in call.no_mix_cols \/ Dir1[n].data.dtype[c] \notin {"float", "int"} }
Present(x) == x[1] # NaN /\ x[2] # NaN
\* v is the multiple of step nearest to num/den
Nearest(v, num, den, step) == v % step = 0 /\ 2 * Abs(den * v - num) <= den * step

\* C1 as stated: every blended float cell of a written file is exactly
\* endpoint1 * (1 - w) + endpoint2 * w.
C1_Original ==
    Blended => \A x \in MixedFloatCells :
        LET n == x[1] r == x[2] c == x[3]
        IN  (Cell1(n, r, c) # NaN /\ Cell2(n, r, c) # NaN)
                => OutCell(n, r, c) * WOne = Sum10(n, r, c)

\* C1 amended: every blended float cell of a written file is
\* endpoint1 * (1 - w) + endpoint2 * w rounded to five decimal places (the
\* "%.5f" of the writer), and is missing when either endpoint cell is missing.
C1_FloatCellsRounded ==
    Blended => \A x \in MixedFloatCells :
        LET n == x[1] r == x[2] c == x[3]
        IN  IF Cell1(n, r, c) = NaN \/ Cell2(n, r, c) = NaN
              THEN OutCell(n, r, c) = NaN
              ELSE Nearest(OutCell(n, r, c), Sum10(n, r, c), WOne, 100)

\* a blend with w = 0.3 whose exact value has more than five decimals
C1_Witness ==
    /\ Blended /\ call.weight = 3
    /\ \E x \in MixedFloatCells :
        LET n == x[1] r == x[2] c == x[3]
        IN  /\ Cell1(n, r, c) # NaN /\ Cell2(n, r, c) # NaN
            /\ Sum10(n, r, c) % (100 * WOne) # 0
            /\ Cell1(n, r, c) # Cell2(n, r, c)

\* C2 as stated: w = 0 reproduces endpoint 1's numeric cells exactly, w = 1
\* endpoint 2's, and w = 0.5 gives the arithmetic mean in every numeric cell.
C2_Original ==
    Blended => \A x \in MixedFloatCells \cup MixedIntCells :
        LET n == x[1] r == x[2] c == x[3]
        IN  /\ call.weight = 0 => OutCell(n, r, c) = Cell1(n, r, c)
            /\ call.weight = WOne => OutCell(n, r, c) = Cell2(n, r, c)
            /\ (call.weight * 2 = WOne /\ Cell1(n, r, c) # NaN /\ Cell2(n, r, c) # NaN)
                    => 2 * OutCell(n, r, c) = Cell1(n, r, c) + Cell2(n, r, c)

\* C2 amended: w = 0 reproduces endpoint 1's integer cells exactly and its
\* float cells rounded to five decimals, w = 1 does so for endpoint 2, and
\* w = 0.5 gives the mean rounded to five decimals in a float cell and rounded
\* to the nearest integer, ties to even, in an integer cell; a float cell
\* missing in either endpoint is missing in the output.
C2_EndpointsAndMean ==
    Blended =>
        /\ \A x \in MixedIntCells :
            LET n == x[1] r == x[2] c == x[3]
            IN  /\ call.weight = 0 => OutCell(n, r, c) = Cell1(n, r, c)
                /\ call.weight = WOne => OutCell(n, r, c) = Cell2(n, r, c)
                /\ call.weight * 2 = WOne =>
                    /\ Abs(2 * OutCell(n, r, c) - (Cell1(n, r, c) + Cell2(n, r, c))) <= 1
                    /\ (Cell1(n, r, c) + Cell2(n, r, c)) % 2 = 1 => OutCell(n, r, c) % 2 = 0
        /\ \A x \in MixedFloatCells :
            LET n == x[1] r == x[2] c == x[3]
            IN  IF Cell1(n, r, c) = NaN \/ Cell2(n, r, c) = NaN
                  THEN OutCell(n, r, c) = NaN
                  ELSE /\ call.weight = 0 => Nearest(OutCell(n, r, c), Cell1(n, r, c), 1, 100)
                       /\ call.weight = WOne => Nearest(OutCell(n, r, c), Cell2(n, r, c), 1, 100)
                       /\ call.weight * 2 = WOne =>
                            Nearest(OutCell(n, r, c), Cell1(n, r, c) + Cell2(n, r, c), 2, 100)

\* a blend with w = 0.5 of two float cells whose mean has more than five
\* decimals and of two integer cells whose sum is odd
C2_Witness ==
    /\ Blended /\ call.weight * 2 = WOne
    /\ \E x \in MixedFloatCells :
            /\ Cell1(x[1], x[2], x[3]) # NaN /\ Cell2(x[1], x[2], x[3]) # NaN
            /\ (Cell1(x[1], x[2], x[3]) + Cell2(x[1], x[2], x[3])) % 200 # 0
    /\ \E x \in MixedIntCells : (Cell1(x[1], x[2], x[3]) + Cell2(x[1], x[2], x[3])) % 2 = 1

\* C3: every blended integer cell is the weighted combination rounded to the
\* nearest integer, a tie at .5 going to the even neighbour, and the column is
\* still an integer column of the written file.
C3_IntCellsRounded ==
    Blended => \A x \in MixedIntCells :
        LET n == x[1] r == x[2] c == x[3]
        IN  /\ inputs[n].data.dtype[c] = "int"
            /\ OutCell(n, r, c) \in Int
            /\ 2 * Abs(WOne * OutCell(n, r, c) - Sum10(n, r, c)) <= WOne
            /\ 2 * Abs(WOne * OutCell(n, r, c) - Sum10(n, r, c)) = WOne
                    => OutCell(n, r, c) % 2 = 0

\* a tie that half-to-even rounds down: the combination is k + .5, k even
C3_Witness ==
    /\ Blended
    /\ \E x \in MixedIntCells :
        /\ Sum10(x[1], x[2], x[3]) % WOne = 5
        /\ WOne * OutCell(x[1], x[2], x[3]) < Sum10(x[1], x[2], x[3])

\* C4 as stated: every excluded or non-numeric column of a written file holds
\* exactly endpoint 1's values.
C4_Original ==
    Blended => \A x \in PassedCells : OutCell(x[1], x[2], x[3]) = Cell1(x[1], x[2], x[3])

\* C4 amended: every excluded or non-numeric column of a written file holds
\* endpoint 1's values for every weight, a float-typed excluded column as the
\* writer formats it (rounded to five decimals); endpoint 2 has no influence.
C4_PassThrough ==
    Blended => \A x \in PassedCells :
        LET n == x[1] r == x[2] c == x[3]
        IN  IF Dir1[n].data.dtype[c] = "float" /\ Cell1(n, r, c) # NaN
              THEN Nearest(OutCell(n, r, c), Cell1(n, r, c), 1, 100)
              ELSE OutCell(n, r, c) = Cell1(n, r, c)

\* a written file with an excluded float column and an excluded integer column
\* in which the endpoints differ, blended with a weight that is not 0
C4_Witness ==
    /\ Blended /\ call.weight # 0
    /\ \E n \in BlendedNames, r \in Rows :
        /\ "Share" \in call.no_mix_cols
        /\ Cell1(n, r, "Share") # Cell2(n, r, "Share")
        /\ Cell1(n, r, "Share") % 100 # 0
        /\ Cell1(n, r, "Year") # Cell2(n, r, "Year")
        /\ Cell1(n, r, "Mode") # Cell2(n, r, "Mode")

\* C5: when a file of directory "1" has no counterpart in directory "2", the
\* call raises FileNotFoundError naming a missing directory-"2" path and the
\* inputs directory is as it was before the call.
Unpaired == { n \in BlendedNames : Dir2[n] = Absent }
C5_FailFast ==
    (call.op = "mixture" /\ Unpaired # {}) =>
        /\ raised \in { FileNotFoundError(ScenPath(MixDir, "2", n)) : n \in Unpaired }
        /\ inputs = pre

\* the call failed although another file of directory "1" could have been
\* blended, and an older file stands untouched in the inputs directory
C5_Witness ==
    /\ call.op = "mixture" /\ raised # NoError
    /\ BlendedNames \ Unpaired # {}
    /\ \E n \in MixNames : IsFile(inputs[n])

----------------------------------------------------------------------------
(* Claims about ReplacementOfNumber, checked under SpecNum *)

\* A numeric literal as section 4.1 of the specification describes it: an
\* optional sign, digits with an optional decimal point, an optional exponent;
\* or a simple fraction a/b.  LiteralEnd is the position after the longest
\* literal that starts at i, NoMatch if none starts there.
DecimalLiteralEnd(s, i) ==
    LET a == Opt(s, i, {"-", "+"})
        b == SkipDigits(s, a)
        c == Opt(s, b, {"."})
        d == SkipDigits(s, c)
        f == Opt(s, d + 1, {"-", "+"})
        g == SkipDigits(s, f)
    IN  IF b = a /\ d = c THEN NoMatch
        ELSE IF d <= Len(s) /\ s[d] \in {"e", "E"} /\ g > f THEN g
        ELSE d
FractionLiteralEnd(s, i) ==
    LET a == SkipDigits(s, i)
        b == SkipDigits(s, a + 1)
    IN  IF a > i /\ a <= Len(s) /\ s[a] = "/" /\ b > a + 1 THEN b ELSE NoMatch
LiteralEnd(s, i) ==
    IF FractionLiteralEnd(s, i) > DecimalLiteralEnd(s, i)
      THEN FractionLiteralEnd(s, i) ELSE DecimalLiteralEnd(s, i)

\* the text with the numeric literal of every assignment of varname replaced
\* by new, and nothing else changed
RECURSIVE LiteralsReplaced(_, _, _)
LiteralsReplaced(s, new, i) ==
    IF i > Len(s) THEN <<>>
    ELSE LET g1 == MatchAssign(s, i, varname, assign_operator)
         IN  IF g1 = NoMatch \/ LiteralEnd(s, g1) = NoMatch
               THEN <<s[i]>> \o LiteralsReplaced(s, new, i + 1)
               ELSE Slice(s, i, g1) \o new \o LiteralsReplaced(s, new, LiteralEnd(s, g1))

\* every assignment of varname in the text is followed by a numeric literal
\* that ends at a blank, a line break or the end of the text
Delimited(s) ==
    \A i \in 1..Len(s) :
        LET g1 == MatchAssign(s, i, varname, assign_operator)
            e == LiteralEnd(s, g1)
        IN  g1 # NoMatch => /\ e # NoMatch
                            /\ e <= Len(s) => IsSpace(s[e])

\* C6 as stated, for texts whose assignments all have a delimited numeric
\* literal: sub replaces the numeric literal of every assignment of varname
\* by str(value) and changes no other character of the text.
C6_Original ==
    (call.op = "sub_number" /\ Delimited(text))
        => result = LiteralsReplaced(text, str(call.value), 1)

\* the text is one assignment of varname whose value is exactly one literal
IsAssignmentOf(s, a) ==
    /\ a \in Assignments
    /\ Len(a) < Len(s)
    /\ Slice(s, 1, Len(a) + 1) = a
OneLiteral(s, a) == IsAssignmentOf(s, a) /\ LiteralEnd(s, Len(a) + 1) = Len(s) + 1

\* C7 as stated: when the value assigned in the text is a fraction a/b, or a
\* signed, decimal or exponent literal, sub consumes the whole literal: the
\* text "x: <literal>" becomes "x: <value>", with no remnant of the old value.
C7_Original ==
    call.op = "sub_number" =>
        \A a \in Assignments : OneLiteral(text, a) => result = a \o str(call.value)

----------------------------------------------------------------------------
(* Claims about ReplacementOfString, checked under SpecStr *)

\* one line (a text without line break) with the value of its first
\* assignment of varname replaced by new: what stands after the operator and
\* the blanks that follow it, up to the end of the line or the first '#', is
\* replaced; a trailing '#comment' stays
FirstAssign(line) ==
    LET at == { k \in 1..Len(line) : MatchAssign(line, k, varname, assign_operator) # NoMatch }
    IN  IF at = {} THEN NoMatch ELSE CHOOSE k \in at : \A j \in at : k <= j
LineReplaced(line, new) ==
    IF FirstAssign(line) = NoMatch THEN line
    ELSE LET g1 == MatchAssign(line, FirstAssign(line), varname, assign_operator)
         IN  Slice(line, 1, g1) \o new \o Slice(line, SkipValue(line, g1), Len(line) + 1)
RECURSIVE LinesReplaced(_, _, _)
LinesReplaced(s, new, i) ==
    LET eol == SkipLine(s, i)
    IN  LineReplaced(Slice(s, i, eol), new)
          \o (IF eol <= Len(s) THEN <<"\n">> \o LinesReplaced(s, new, eol + 1) ELSE <<>>)

\* C8 as stated: on every line that holds an assignment of varname only the
\* value portion is replaced by the new value, a trailing '#comment' is kept,
\* a line without comment gains nothing beyond the new value, and every other
\* line is unchanged.
C8_Original ==
    call.op = "sub_string" => result = LinesReplaced(text, str(call.value), 1)

----------------------------------------------------------------------------
(* Claims about the template manipulations, checked under SpecTpl *)

Occurrences(y, old) == Cardinality({ i \in 1..Len(y) : StartsWith(y, i, old) })
\* the template with every marker of a provided name replaced in one pass
RECURSIVE ReplacedInOnePass(_, _, _, _)
ReplacedInOnePass(y, names, formatted, i) ==
    IF i > Len(y) THEN <<>>
    ELSE IF \E k \in 1..Len(names) : StartsWith(y, i, Marker(names[k]))
      THEN formatted[y[i + 2]] \o ReplacedInOnePass(y, names, formatted, i + 4)
    ELSE <<y[i]>> \o ReplacedInOnePass(y, names, formatted, i + 1)

\* C9: after a template manipulation the written file is the template with
\* every marker of a computed parameter replaced by the formatted value, it
\* holds no marker of a computed parameter, the markers of other names stand
\* as they stood in the template, and no error was raised.
C9_MarkersReplaced ==
    call.op \in Manipulations =>
        LET template == scenario_inputs[TemplateOf(call.op)]
            written == inputs[OutputOf(call.op)].data
            names == NamesOf(call.op)
        IN  /\ raised = NoError
            /\ \A k \in 1..Len(names) : Occurrences(written, Marker(names[k])) = 0
            /\ written = ReplacedInOnePass(template, names, FormattedOf(call.op, call.params), 1)
            /\ Occurrences(written, Marker("Other")) = Occurrences(template, Marker("Other"))

\* a template that holds one marker twice and a marker no manipulation provides
C9_Witness ==
    /\ call.op \in Manipulations
    /\ \E k \in 1..Len(NamesOf(call.op)) :
            Occurrences(scenario_inputs[TemplateOf(call.op)], Marker(NamesOf(call.op)[k])) >= 2
    /\ Occurrences(inputs[OutputOf(call.op)].data, Marker("Other")) >= 1

----------------------------------------------------------------------------
(* Claims about the categorical drop-in, checked under SpecDrop *)

DropOps == {"land_use", "vehicle_travel_cost"}
DropSource == scenario_inputs[<<call.dir, call.sub>>]

\* C10: after a drop-in that raised nothing, every regular file of the
\* selected source directory stands in the inputs directory under its name
\* with the source's content, and every other name of the inputs directory,
\* a subdirectory of the source included, is as it was before the call.
C10_DropIn ==
    (call.op \in DropOps /\ raised = NoError) =>
        \A n \in DropNames :
            IF DropSource[n] # Absent /\ DropSource[n].kind = "file"
              THEN inputs[n] = SourceFile(call.dir, call.sub, n)
              ELSE inputs[n] = pre[n]

\* a drop-in that overwrote one file and left another in place, the source
\* holding a subdirectory under the name of the file it left
C10_Witness ==
    /\ call.op \in DropOps /\ raised = NoError
    /\ \E n \in DropNames : IsFile(pre[n]) /\ IsFile(DropSource[n]) /\ inputs[n] # pre[n]
    /\ \E n \in DropNames : IsFile(pre[n]) /\ DropSource[n] = SubDir /\ inputs[n] = pre[n]

cat_mapping_of(op) ==
    IF op = "land_use" THEN land_use_mapping ELSE vehicle_travel_cost_mapping

\* C11: a drop-in whose categorical value is no key of the mapping raises an
\* error, and so does a drop-in whose mapped source directory does not exist;
\* in both cases the inputs directory is as it was before the call.
C11_FailsClean ==
    call.op \in DropOps =>
        /\ call.value \notin DOMAIN cat_mapping_of(call.op) =>
                raised # NoError /\ inputs = pre
        /\ (/\ call.value \in DOMAIN cat_mapping_of(call.op)
            /\ scenario_inputs[<<call.dir, cat_mapping_of(call.op)[call.value]>>] = NoDir) =>
                raised # NoError /\ inputs = pre

\* a drop-in of a value that is no category, made on an inputs directory
\* that holds files
C11_Witness ==
    /\ call.op \in DropOps
    /\ call.value \notin DOMAIN cat_mapping_of(call.op)
    /\ raised # NoError
    /\ \E n \in DropNames : IsFile(inputs[n])

\* a drop-in from a source directory that does not exist
C11_WitnessNoDir ==
    /\ call.op \in DropOps
    /\ call.value \in DOMAIN cat_mapping_of(call.op)
    /\ scenario_inputs[<<call.dir, cat_mapping_of(call.op)[call.value]>>] = NoDir
    /\ raised = FileNotFoundError(<<call.dir, cat_mapping_of(call.op)[call.value]>>)

----------------------------------------------------------------------------
(* Claims about run and last_run_logs, checked under SpecRun *)

RunReturned == call.op = "run" /\ call.started

\* C12: when the subprocess exits with a non-zero code, run() raises a
\* CalledProcessError that carries the return code, the argument list, the
\* stdout and the stderr the subprocess gave, and the output directory is as
\* that one subprocess left it: no stdout.log is written, no file is renamed.
C12_NonZeroExit ==
    (RunReturned /\ call.returncode # 0) =>
        /\ raised = [type |-> "CalledProcessError", returncode |-> call.returncode,
                     cmd |-> <<cmd, "verspm_runner.R">>,
                     output |-> call.stdout, stderr |-> call.stderr]
        /\ output = call.left

\* a failed run that wrote to stdout, with a stamped file to rename and an
\* older stdout.log of other content in the output directory
C12_Witness ==
    /\ RunReturned /\ call.returncode # 0
    /\ call.stdout = "lines"
    /\ output[stdout_log] = File("")
    /\ \E n \in glob_csv(output) : renamed[n].match

\* a name of the form <name>_<YYYY>-<M>-<D>_<N>.csv, whatever the year
TimestampAt(s, i) ==
    /\ StartsWith(s, i, <<"_">>)
    /\ i + 5 <= Len(s)
    /\ \A k \in 1..4 : IsDigit(s[i + k])
    /\ s[i + 5] = "-"
    /\ LET j == SkipDigits(s, i + 6)
           k == SkipDigits(s, j + 1)
           l == SkipDigits(s, k + 1)
       IN  /\ j > i + 6 /\ StartsWith(s, j, <<"-">>)
           /\ k > j + 1 /\ StartsWith(s, k, <<"_">>)
           /\ l > k + 1 /\ StartsWith(s, l, csv)
           /\ l + Len(csv) = Len(s) + 1
Timestamped(s) == \E i \in 1..Len(s) : TimestampAt(s, i)
Untimed(s) == Slice(s, 1, CHOOSE i \in 1..Len(s) : TimestampAt(s, i)) \o csv

\* C13 as stated: after a successful run every timestamped CSV, whatever its
\* year, has gone to <name>.csv and no timestamped CSV remains, and the other
\* CSVs keep their names.
C13_Original ==
    (RunReturned /\ raised = NoError) =>
        \A n \in OutNames :
            /\ Timestamped(n) => output[n] = Absent
            /\ (Timestamped(n) /\ call.left[n] # Absent) => output[Untimed(n)] # Absent
            /\ (~Timestamped(n) /\ EndsWith(n, csv) /\ call.left[n] # Absent) => output[n] # Absent

Reports(lines, head, stream) ==
    IF stream = "" THEN \A i \in 1..Len(lines) : lines[i] # head
    ELSE \E i \in 1..(Len(lines) - 1) : lines[i] = head /\ lines[i + 1] = stream
Holds(lines, line) == \E i \in 1..Len(lines) : lines[i] = line

\* C20 as stated: last_run_logs reports the streams of the most recent run,
\* a failed one included, always ends with '=== END OF LOG ===', and says
\* 'no run stored' only when no run has reached the subprocess call.
C20_Original ==
    call.op = "last_run_logs" =>
        /\ Len(result) > 0 /\ result[Len(result)] = "=== END OF LOG ==="
        /\ Holds(result, "no run stored") => Seen(call) = Unset
        /\ Seen(call) # Unset =>
                /\ Reports(result, "=== STDOUT ===", Seen(call).stdout)
                /\ Reports(result, "=== STDERR ===", Seen(call).stderr)

\* C20 amended: when a subprocess has returned, last_run_logs reports the
\* streams of the last one that did, whatever its exit code, and ends with
\* '=== END OF LOG ==='; when none has, its output is 'no run stored' alone.
C20_LogsOfLastResult ==
    call.op = "last_run_logs" =>
        IF Seen(call) = Unset THEN result = <<"no run stored">>
        ELSE /\ result[Len(result)] = "=== END OF LOG ==="
             /\ ~Holds(result, "no run stored")
             /\ Reports(result, "=== STDOUT ===", Seen(call).stdout)
             /\ Reports(result, "=== STDERR ===", Seen(call).stderr)

\* the logs of a run that failed after an earlier run had succeeded
C20_Witness ==
    /\ call.op = "last_run_logs"
    /\ last_run_result # Unset /\ last_run_result.returncode # 0
    /\ output[stdout_log] # Absent
    /\ Holds(result, "=== STDERR ===")

----------------------------------------------------------------------------
(* Claims about setup, checked under SpecSetup *)

\* the value setup is to use for a scope parameter: the one given, else the default
Given(k) == IF k \in DOMAIN call.params THEN call.params[k] ELSE default[k]
UnknownKey == \E k \in DOMAIN call.params : k \notin ScopeParameters

\* C15: a key that is no parameter of the scope makes setup raise KeyError
\* with no file written, copied or blended; otherwise the manipulations use,
\* for every scope parameter that was not given, its default (seen here in
\* model_parameters.json, in the land-use and travel-cost files dropped in
\* and in the blended technology file).
C15_DefaultsThenKeys ==
    call.op = "setup" =>
        /\ UnknownKey =>
                /\ raised = KeyError
                /\ inputs = pre
                /\ workdir = call.workdir
        /\ (~UnknownKey /\ raised = NoError) =>
                /\ workdir[model_parameters_json].data[1].VALUE
                        = str([kind |-> "int", n |-> Given("ValueOfTime")])
                /\ inputs["l.csv"] = SourceFile("L", land_use_mapping[Given("LandUse")], "l.csv")
                /\ inputs["c.csv"]
                        = SourceFile("C", vehicle_travel_cost_mapping[Given("VehicleTravelCost")], "c.csv")
                /\ inputs["F.csv"]
                        = File(to_csv(MixedFrame(Tables[1], Tables[2], Given("TechMix"), DefaultNoMix)))

\* a setup that was given two parameters only and ran to its end over an
\* inputs directory that held files
C15_Witness ==
    /\ call.op = "setup"
    /\ DOMAIN call.params = {"ValueOfTime", "Income"}
    /\ raised = NoError
    /\ IsFile(pre["l.csv"])
    /\ inputs["l.csv"] # pre["l.csv"]

\* a setup that was given an unknown key next to a known one
C15_WitnessKeyError ==
    /\ call.op = "setup"
    /\ UnknownKey /\ "LandUse" \in DOMAIN call.params
    /\ raised = KeyError

BlendOf(ve, n, weight_2) ==
    File(to_csv(MixedFrame(scenario_inputs[<<ve, "1">>][n].data,
                           scenario_inputs[<<ve, "2">>][n].data, weight_2, DefaultNoMix)))

----------------------------------------------------------------------------
(* Claims about post_process *)

PostReturned == call.op = "post_process"
\* the directory output_path named, before and after the call
PostDirBefore == IF call.output_path = None THEN call.output ELSE call.archive_dir
PostDirAfter == IF call.output_path = None THEN output ELSE archive_dir
YearsOf(table) == { table[i].Year : i \in 1..Len(table) }
TablesRead ==
    /\ PostDirBefore[M \o csv] # Absent
    /\ PostDirBefore[Household \o csv] # Absent
    /\ read_deflators # Absent

\* C16: when the deflator table post_process reads has no row for 2010 or no
\* row for 2005, post_process ends with a KeyError, and ComputedMeasures.json
\* is as it was before the call (absent if it was absent).
C16_DeflatorYears ==
    (PostReturned /\ TablesRead /\ ~({2010, 2005} \subseteq YearsOf(read_deflators.data)))
        => /\ raised.type = "KeyError"
           /\ PostDirAfter = PostDirBefore
           /\ output = call.output
           /\ archive_dir = call.archive_dir
\* a call that found no 2005 row while an older measures file was there
C16_Witness ==
    /\ PostReturned /\ TablesRead
    /\ 2010 \in YearsOf(read_deflators.data)
    /\ 2005 \notin YearsOf(read_deflators.data)
    /\ PostDirBefore[ComputedMeasures_json] # Absent
    /\ raised = KeyErrorOf(<<"invalid ToYear", <<"2", "0", "0", "5">>>>)

\* the measures a list of names asks for
MeasuresAsked(measure_names) == { measure_names[i] : i \in 1..Len(measure_names) }
\* C17: post_process with a list of measure names writes only the measures
\* named and raises KeyError for a name that has no post-processor; without a
\* list it writes all eight measures.
C17_Original ==
    (PostReturned /\ TablesRead /\ {2010, 2005} \subseteq YearsOf(read_deflators.data))
        => IF call.measure_names = None
             THEN raised = NoError
                  /\ DOMAIN PostDirAfter[ComputedMeasures_json].data = MeasureNames
           ELSE IF MeasuresAsked(call.measure_names) \subseteq MeasureNames
             THEN raised = NoError
                  /\ DOMAIN PostDirAfter[ComputedMeasures_json].data = MeasuresAsked(call.measure_names)
           ELSE raised.type = "KeyError"
\* what the code does with a list of names: the same as without one
PostIgnoresNames ==
    (PostReturned /\ TablesRead /\ {2010, 2005} \subseteq YearsOf(read_deflators.data))
        => /\ raised = NoError
           /\ DOMAIN PostDirAfter[ComputedMeasures_json].data = MeasureNames

----------------------------------------------------------------------------
(* Claims about the lifecycle *)

\* C14: run() starts the external runtime only on a model whose setup has
\* completed, post_process ends normally only on a model whose run has
\* completed, and archive writes its zip only on a post-processed model.
C14_Original ==
    /\ (call.op = "run" /\ call.started) => call.was # "none"
    /\ (call.op = "post_process" /\ raised = NoError) => call.was = "run"
    /\ call.op = "archive" => call.was = "post_process"
\* what run() does on a model that was never set up: the subprocess is called
\* and its outcome decides alone
RunWithoutSetup ==
    (call.op = "run" /\ call.started /\ call.was = "none")
        => /\ last_run_result.returncode = call.returncode
           /\ raised.type \in {"none", "CalledProcessError"}

----------------------------------------------------------------------------
(* Claims about setup on distributed workers *)

\* a process whose worker directory is not the directory the model was made in
OnWorker(p) == procs[p].worker # NoWorker /\ procs[p].worker # "master"
Started(p) == procs[p].pc >= 1 /\ procs[p].pc <= LastStep
DirsWritten(p) == { path[1] : path \in procs[p].wrote }
\* what one setup call alone makes of a copy of the master tree
AloneResult(p) ==
    { [inputs |-> end.inputs, workdir |-> end.workdir] :
        end \in { manipulations([inputs |-> MasterTree.inputs, workdir |-> MasterTree.workdir,
                                 raised |-> NoError], procs[p].params,
                                [F |-> f, P |-> q, D |-> d, V |-> v, E |-> e]) :
                    f \in ScanOrders("F"), q \in ScanOrders("P"), d \in ScanOrders("D"),
                    v \in ScanOrders("V"), e \in ScanOrders("E") } }

\* C19: a setup call on a worker whose directory differs from the model's has
\* copied the model tree and switched local_directory before its first
\* manipulation, and writes only under the worker's directory; calls on
\* workers with distinct directories write no common path, leave the master
\* tree as it was, and each ends with the tree it would make alone; a call
\* that is not on a worker, or whose worker directory is the model's, copies
\* nothing and stays in the model's directory.
C19_WorkerIsolation ==
    /\ \A p \in Procs :
         (OnWorker(p) /\ procs[p].pc >= 1 /\ procs[p].raised.type # "KeyError")
            => /\ procs[p].copied
               /\ procs[p].local_directory = procs[p].worker
               /\ DirsWritten(p) = {procs[p].worker}
    /\ \A p \in Procs :
         ~OnWorker(p)
            => /\ ~procs[p].copied
               /\ procs[p].local_directory = "master"
               /\ DirsWritten(p) \subseteq {"master"}
    /\ \A p, q \in Procs :
         (p # q /\ OnWorker(p) /\ OnWorker(q) /\ procs[p].worker # procs[q].worker)
            => /\ procs[p].wrote \cap procs[q].wrote = {}
               /\ trees["master"] = MasterTree
               /\ (procs[p].pc = Returned /\ procs[p].raised = NoError)
                     => trees[procs[p].worker] \in AloneResult(p)
\* two calls on two workers, both returned, each having written its own tree
C19_Witness ==
    /\ procs["p1"].worker = "worker-1" /\ procs["p2"].worker = "worker-2"
    /\ \A p \in Procs : /\ procs[p].pc = Returned
                        /\ procs[p].raised = NoError
                        /\ procs[p].copied
                        /\ <<procs[p].worker, "F.csv">> \in procs[p].wrote
    /\ trees["worker-1"] # trees["worker-2"]

\* C21: after a post_process that returned normally, ComputedMeasures.json in
\* the directory it worked on is a mapping of exactly the eight keys the
\* registered parser looks up, each to one number, and the parser finds every
\* key.
C21_MeasureKeys ==
    (PostReturned /\ raised = NoError)
        => /\ PostDirAfter[ComputedMeasures_json] # Absent
           /\ DOMAIN PostDirAfter[ComputedMeasures_json].data = MappingParserKeys
           /\ \A k \in MappingParserKeys :
                 /\ DOMAIN PostDirAfter[ComputedMeasures_json].data[k] = {"num", "den"}
                 /\ PostDirAfter[ComputedMeasures_json].data[k].num \in Int
                 /\ PostDirAfter[ComputedMeasures_json].data[k].den \in Int
           /\ MappingParser(PostDirAfter[ComputedMeasures_json]).raised = NoError
\* a successful call that replaced an older measures file of one key
C21_Witness ==
    /\ PostReturned /\ raised = NoError
    /\ PostDirBefore[ComputedMeasures_json] = File([FuelUse |-> Quotient(0, 1)])
    /\ PostDirAfter[ComputedMeasures_json].data.FuelUse = Quotient(3285, 1)
    /\ PostDirAfter[ComputedMeasures_json].data.VehicleCostLow.den = 15000

----------------------------------------------------------------------------
(* Claims about timestamped variants *)

\* the timestamped variants of <name>.csv the renaming loop met, in the order
\* the glob listed them
VariantsOf(name) ==
    SelectSeq(call.renaming, LAMBDA n : renamed[n].sub = name)
Last(s) == s[Len(s)]
\* C22: when a subprocess that exited with code 0 has left several timestamped
\* variants of one <name>.csv, run() returns with no variant left and with
\* <name>.csv holding the content of the variant that came last in the glob
\* order.
C22_Original ==
    (RunReturned /\ call.returncode = 0)
        => \A name \in OutNames :
              Len(VariantsOf(name)) >= 2
                 => /\ raised = NoError
                    /\ \A i \in 1..Len(VariantsOf(name)) : output[VariantsOf(name)[i]] = Absent
                    /\ output[name] = call.left[Last(VariantsOf(name))]
\* the same where os.rename replaces an existing file
LastVariantWinsOnPosix == platform = "Linux" => C22_Original
\* two variants, the one listed last surviving: the content depends on the order
LastVariantWon ==
    /\ RunReturned /\ raised = NoError
    /\ Len(VariantsOf(M \o csv)) = 2
    /\ output[M \o csv] = Written(VariantsOf(M \o csv)[2])
    /\ VariantsOf(M \o csv)[2] = Stamped(M, <<"2", "0", "2", "1">>, <<"4">>)

----------------------------------------------------------------------------
(* Claims about repeated setup *)

\* the inputs directories a model starts with
FreshInputs ==
    { [n \in SetupNames |-> Absent], [n \in SetupNames |-> File(<<"VERSPM", "inputs", n>>)] }
\* what a setup call with the parameters of the last call makes of a fresh
\* inputs directory
SetupAlone ==
    { manipulations([inputs |-> fresh, workdir |-> call.workdir, raised |-> NoError],
                    fill_defaults(call.params),
                    [F |-> f, P |-> p, D |-> d, V |-> v, E |-> e]).inputs :
        fresh \in FreshInputs,
        f \in ScanOrders("F"), p \in ScanOrders("P"), d \in ScanOrders("D"),
        v \in ScanOrders("V"), e \in ScanOrders("E") }
\* C23: after every setup call that returns normally, the inputs directory is
\* what that call alone makes of a fresh directory, whatever calls came
\* before it.
C23_Original ==
    (call.op = "setup" /\ raised = NoError) => inputs \in SetupAlone
\* a setup with LandUse "growth" that kept the file only the directory of
\* "base" holds, copied by an earlier setup
StaleDropIn ==
    /\ call.op = "setup" /\ raised = NoError
    /\ Given("LandUse") = "growth"
    /\ scenario_inputs[<<"L", "2">>]["only1.csv"] = Absent
    /\ inputs["only1.csv"] = SourceFile("L", "1", "only1.csv")
\* the first setup of a model does leave what it alone makes
FirstSetupAlone ==
    (call.op = "setup" /\ raised = NoError /\ call.was = "none" /\ pre \in FreshInputs)
        => inputs \in SetupAlone

----------------------------------------------------------------------------
(* Claims about the files post_process reads *)

\* C24: the deflator table post_process reads lies in the model tree of
\* local_directory, wherever the process's working directory is, so that a
\* table that is in that tree is found.
C24_Original ==
    (PostReturned /\ PostDirBefore[M \o csv] # Absent /\ PostDirBefore[Household \o csv] # Absent)
        => /\ deflators_path[1] = local_directory
           /\ workdir[deflators_csv] # Absent => raised.type # "FileNotFoundError"
\* post_process after setup has switched to the worker's directory: the table
\* is read from the master tree
ReadFromMasterTree ==
    /\ PostReturned /\ raised = NoError
    /\ local_directory = "worker-1"
    /\ deflators_path = <<"master", deflators_csv>>
    /\ workdir[deflators_csv] # Absent

----------------------------------------------------------------------------
(* Claims about what the substitutions leave alone *)

\* the lines of a text from position i on
RECURSIVE LinesOf(_, _)
LinesOf(s, i) ==
    LET eol == SkipLine(s, i)
    IN  <<Slice(s, i, eol)>> \o (IF eol <= Len(s) THEN LinesOf(s, eol + 1) ELSE <<>>)
\* C25: ReplacementOfString.sub returns a text of as many lines as it was
\* given, and every line that holds no assignment of varname is in it
\* unchanged, also below an assignment with an empty value.
C25_Original ==
    call.op = "sub_string" =>
        /\ Len(LinesOf(result, 1)) = Len(LinesOf(text, 1))
        /\ \A i \in 1..Len(LinesOf(text, 1)) :
              FirstAssign(LinesOf(text, 1)[i]) = NoMatch
                 => LinesOf(result, 1)[i] = LinesOf(text, 1)[i]
\* the line below an assignment with an empty value taken as the value
NextLineTaken ==
    /\ call.op = "sub_string" /\ call.value.s = <<"b">>
    /\ text = <<"x", ":", "\n", "o">>
    /\ result = <<"x", ":", "\n", "b", " ", " ">>
\* no assignment of the text is followed, after blanks, by a line break
ValuesOnTheirLines(s) ==
    \A i \in 1..Len(s) :
        LET g1 == MatchAssign(s, i, varname, assign_operator)
        IN  g1 # NoMatch => \A k \in i..(g1 - 1) : s[k] # "\n"
\* where every value stands on the line of its assignment, the other lines
\* are left alone
OtherLinesKept == (call.op = "sub_string" /\ ValuesOnTheirLines(text)) => C25_Original

\* no assignment of varname in the text is followed by a numeric literal
NoLiteral(s) ==
    \A i \in 1..Len(s) :
        LET g1 == MatchAssign(s, i, varname, assign_operator)
        IN  g1 = NoMatch \/ LiteralEnd(s, g1) = NoMatch
\* C26: ReplacementOfNumber.sub returns the text unchanged when no assignment
\* of varname in it is followed by a numeric literal, as in 'x: a' or 'x:'.
C26_Original ==
    (call.op = "sub_number" /\ NoLiteral(text)) => result = text
\* the value put in front of a text that is no number
ValueInserted ==
    /\ call.op = "sub_number" /\ call.value = [kind |-> "int", n |-> 7]
    /\ text = <<"x", ":", " ", "a">>
    /\ result = <<"x", ":", " ", "7", "a">>

====
